---- MODULE Spec2Model ----
(***************************************************************************)
(* Model of the udisks-rs client: the object inventory served by the       *)
(* UDisks2 ObjectManager, the Object interface accessors (object.rs) and   *)
(* the relationship resolver of Client (client.rs).                        *)
(***************************************************************************)
EXTENDS Integers, Sequences, FiniteSets, TLC

VARIABLES managed_objects, call

vars == <<managed_objects, call>>

(***************************************************************************)
(* Bounds                                                                  *)
(***************************************************************************)
\* number of object paths of the modelled service
NumObjects == 3
\* object paths a reference property may name (1..NumRefTargets)
NumRefTargets == 2
\* number of round trips that may fail during one resolver scan
MaxFailures == 1
\* number of (object, interface) pairs exposed at once in the accessor model
MaxExposed == 2

Paths == 1..NumObjects
\* the object path "/" that UDisks uses for "no such object"
RootPath == 0
RefTargets == 1..NumRefTargets
Refs == {RootPath} \cup RefTargets

(***************************************************************************)
(* Interface names of the proxies, and the keys the accessors look up      *)
(***************************************************************************)
IfaceBlock == "org.freedesktop.UDisks2.Block"
IfaceDrive == "org.freedesktop.UDisks2.Drive"
IfacePartition == "org.freedesktop.UDisks2.Partition"
IfacePartitionTable == "org.freedesktop.UDisks2.PartitionTable"
IfaceLoop == "org.freedesktop.UDisks2.Loop"
IfaceMDRaid == "org.freedesktop.UDisks2.MDRaid"
IfaceJob == "org.freedesktop.UDisks2.Job"

Ifaces == {IfaceBlock, IfaceDrive, IfacePartition, IfacePartitionTable,
           IfaceLoop, IfaceMDRaid, IfaceJob}

\* the property bag an interface has when it appears
DefaultBag(iface) ==
    CASE iface = IfaceBlock ->
            [Drive |-> RootPath, MDRaid |-> RootPath, MDRaidMember |-> RootPath]
      [] iface = IfacePartition -> [Table |-> RootPath]
      [] iface = IfaceDrive -> [SiblingId |-> ""]
      [] iface = IfaceJob -> [Objects |-> <<>>]
      [] OTHER -> [none |-> TRUE]

(***************************************************************************)
(* Results                                                                 *)
(***************************************************************************)
InterfaceNotFound == [ok |-> FALSE, err |-> "InterfaceNotFound"]
TransportError == [ok |-> FALSE, err |-> "Transport"]
PropertyError == [ok |-> FALSE, err |-> "Property"]
Ok(v) == [ok |-> TRUE, val |-> v]
None == [some |-> FALSE]
Some(v) == [some |-> TRUE, val |-> v]
NoCall == [op |-> "none"]

\* a typed proxy bound to an object path
Proxy(path, iface) == [path |-> path, interface |-> iface]

(***************************************************************************)
(* Object interface accessors (get_interface!)                             *)
(***************************************************************************)
\* a get_interface that does not look the key up
get_interface_unchecked(objects, path, key, iface, fails) ==
    IF fails THEN TransportError
    ELSE IF path \notin DOMAIN objects THEN InterfaceNotFound
    ELSE Ok(Proxy(path, iface))

get_interface(objects, path, key, iface, fails) ==
    IF fails THEN TransportError
    ELSE IF path \notin DOMAIN objects THEN InterfaceNotFound
    ELSE IF key \notin DOMAIN objects[path] THEN InterfaceNotFound
    ELSE Ok(Proxy(path, iface))

block(objects, path, fails) ==
    get_interface(objects, path, "org.freedesktop.UDisks2.Block", IfaceBlock, fails)
drive(objects, path, fails) ==
    get_interface(objects, path, "org.freedesktop.UDisks2.Drive", IfaceDrive, fails)
partition_table(objects, path, fails) ==
    get_interface(objects, path, "org.freedesktop.UDisks2.PartitionTable",
                  IfacePartitionTable, fails)
job(objects, path, fails) ==
    get_interface(objects, path, "org.freedesktop.UDisks2.Job", IfaceJob, fails)
loop(objects, path, fails) ==
    get_interface(objects, path, "org.freedesktop.UDisks2.Loop", IfaceLoop, fails)
partition(objects, path, fails) ==
    get_interface(objects, path, "org.freedesktop.UDisks2.Partition",
                  IfacePartition, fails)
mdraid(objects, path, fails) ==
    get_interface(objects, path, "org.freedesktop.UDisks2.Mdraid", IfaceMDRaid, fails)

\* a property read through a proxy: fails when the object or the interface
\* is gone, when the bag does not hold the property (an unreadable
\* property), or when the round trip fails
Property(objects, proxy, name, fails) ==
    IF fails THEN TransportError
    ELSE IF proxy.path \notin DOMAIN objects THEN PropertyError
    ELSE IF proxy.interface \notin DOMAIN objects[proxy.path] THEN PropertyError
    ELSE IF name \notin DOMAIN objects[proxy.path][proxy.interface] THEN PropertyError
    ELSE Ok(objects[proxy.path][proxy.interface][name])

\* the orders in which the provider may enumerate the objects
Orders(objects) ==
    {o \in [1..Cardinality(DOMAIN objects) -> DOMAIN objects] :
        \A i, j \in DOMAIN o : i # j => o[i] # o[j]}

\* get_managed_objects().await.into_iter().flatten(): nothing on a failure
Enumerate(order, fail) == IF <<RootPath, "enum">> \in fail THEN <<>> ELSE order

\* the failure patterns of one scan: which round trips fail (the
\* enumeration, and per object the interface accessor, the property read,
\* the partition check and block_for_drive's second block accessor)
FailPoints ==
    {<<RootPath, "enum">>} \cup (Paths \X {"accessor", "property", "partition", "block2"})
FailPatterns == {f \in SUBSET FailPoints : Cardinality(f) <= MaxFailures}
NoFail == {}

(***************************************************************************)
(* Client::block_or_blocks_for_mdraid and its wrappers                     *)
(***************************************************************************)
block_or_blocks_for_mdraid(objects, order, raid, members, only_first_one, skip_partitions, fail) ==
    LET seq == Enumerate(order, fail)
        scan[i \in 0..Len(seq)] ==
            IF i = 0 THEN [blocks |-> <<>>, stop |-> FALSE]
            ELSE LET prev == scan[i - 1]
                     path == seq[i]
                     blk == block(objects, path, <<path, "accessor">> \in fail)
                     block_objpath ==
                         IF members
                         THEN Property(objects, blk.val, "MDRaid",
                                       <<path, "property">> \in fail)
                         ELSE Property(objects, blk.val, "MDRaidMember",
                                       <<path, "property">> \in fail)
                 IN  IF prev.stop THEN prev
                     ELSE IF ~blk.ok THEN prev
                     ELSE IF skip_partitions
                             /\ partition(objects, path, <<path, "partition">> \in fail).ok
                          THEN prev
                     ELSE IF block_objpath = Ok(raid)
                          THEN [blocks |-> Append(prev.blocks, path),
                                stop |-> only_first_one]
                     ELSE prev
    IN  scan[Len(seq)].blocks

block_for_mdraid(objects, order, raid, fail) ==
    LET blocks == block_or_blocks_for_mdraid(objects, order, raid, FALSE, TRUE, TRUE, fail)
    IN  IF blocks = <<>> THEN None ELSE Some(blocks[1])

all_blocks_for_mdraid(objects, order, raid, fail) ==
    block_or_blocks_for_mdraid(objects, order, raid, FALSE, FALSE, TRUE, fail)

\* a members_for_mdraid that reads the reference the device queries read
members_for_mdraid_device_reference(objects, order, raid, fail) ==
    block_or_blocks_for_mdraid(objects, order, raid, FALSE, FALSE, FALSE, fail)

members_for_mdraid(objects, order, raid, fail) ==
    block_or_blocks_for_mdraid(objects, order, raid, TRUE, FALSE, FALSE, fail)

(***************************************************************************)
(* Inventories of block devices and RAID arrays                            *)
(***************************************************************************)
\* a bag in which the property name cannot be read
Without(bag, name) == [f \in DOMAIN bag \ {name} |-> bag[f]]

RaidBlockBags == [Drive : {RootPath}, MDRaid : Refs, MDRaidMember : Refs]

RaidShapes ==
    {[i \in {IfaceMDRaid} |-> DefaultBag(i)]}
    \cup {[i \in {IfaceBlock} |-> b] : b \in RaidBlockBags}
    \cup {[i \in {IfaceBlock, IfacePartition} |->
              IF i = IfaceBlock THEN b ELSE DefaultBag(i)] : b \in RaidBlockBags}

InitRaid ==
    /\ managed_objects \in [Paths -> RaidShapes]
    /\ call = NoCall

BlockForMDRaid ==
    \E raid \in RefTargets, order \in Orders(managed_objects) :
        /\ call.op = "none"
        /\ call' = [op |-> "block_for_mdraid", arg |-> raid,
                    result |-> block_for_mdraid(managed_objects, order, raid, NoFail)]
        /\ UNCHANGED managed_objects

AllBlocksForMDRaid ==
    \E raid \in RefTargets, order \in Orders(managed_objects) :
        /\ call.op = "none"
        /\ call' = [op |-> "all_blocks_for_mdraid", arg |-> raid,
                    result |-> all_blocks_for_mdraid(managed_objects, order, raid, NoFail)]
        /\ UNCHANGED managed_objects

MembersForMDRaid ==
    \E raid \in RefTargets, order \in Orders(managed_objects) :
        /\ call.op = "none"
        /\ call' = [op |-> "members_for_mdraid", arg |-> raid,
                    result |-> members_for_mdraid(managed_objects, order, raid, NoFail)]
        /\ UNCHANGED managed_objects

NextRaid == BlockForMDRaid \/ AllBlocksForMDRaid \/ MembersForMDRaid

SpecRaid == InitRaid /\ [][NextRaid]_vars

\* the elements of a sequence
Range(seq) == {seq[i] : i \in DOMAIN seq}
\* no element occurs twice
NoDuplicates(seq) == \A i, j \in DOMAIN seq : i # j => seq[i] # seq[j]

\* what an inventory says about an object
Exposes(objects, path, iface) ==
    path \in DOMAIN objects /\ iface \in DOMAIN objects[path]
Holds(objects, path, iface, name, value) ==
    /\ Exposes(objects, path, iface)
    /\ name \in DOMAIN objects[path][iface]
    /\ objects[path][iface][name] = value

\* the blocks that are the running device of raid, partitions left out
RaidDevices(objects, raid) ==
    {p \in DOMAIN objects :
        /\ Holds(objects, p, IfaceBlock, "MDRaid", raid)
        /\ ~Exposes(objects, p, IfacePartition)}
\* the blocks that are a member of raid
RaidMembers(objects, raid) ==
    {p \in DOMAIN objects : Holds(objects, p, IfaceBlock, "MDRaidMember", raid)}

\* C1: block_for_mdraid(raid) returns a non-partition block whose MDRaid
\* reference is raid, and None exactly when there is no such block; every
\* element of all_blocks_for_mdraid(raid) is such a block; a block linked to
\* raid only by MDRaidMember is never returned.
C1_RaidDeviceQuery ==
    /\ call.op = "block_for_mdraid" =>
          IF call.result = None
          THEN RaidDevices(managed_objects, call.arg) = {}
          ELSE call.result.val \in RaidDevices(managed_objects, call.arg)
    /\ call.op = "all_blocks_for_mdraid" =>
          Range(call.result) \subseteq RaidDevices(managed_objects, call.arg)

\* C2: members_for_mdraid(raid) returns exactly the blocks, partitions
\* included, whose MDRaidMember reference is raid; a block that is only the
\* running device of raid is not in the result.
C2_RaidMemberQuery ==
    call.op = "members_for_mdraid" =>
        /\ Range(call.result) = RaidMembers(managed_objects, call.arg)
        /\ NoDuplicates(call.result)

(***************************************************************************)
(* Client::top_level_blocks_for_drive and Client::block_for_drive          *)
(***************************************************************************)
top_level_blocks_for_drive(objects, order, drive_object_path, fail) ==
    LET seq == Enumerate(order, fail)
        scan[i \in 0..Len(seq)] ==
            IF i = 0 THEN <<>>
            ELSE LET blocks == scan[i - 1]
                     path == seq[i]
                     blk == block(objects, path, <<path, "accessor">> \in fail)
                 IN  IF ~blk.ok THEN blocks
                     ELSE IF /\ Property(objects, blk.val, "Drive",
                                         <<path, "property">> \in fail)
                                    = Ok(drive_object_path)
                             /\ ~partition(objects, path,
                                           <<path, "partition">> \in fail).ok
                          THEN Append(blocks, path)
                     ELSE blocks
    IN  scan[Len(seq)]

\* a block_for_drive that takes the first block device of the drive, a
\* partition or not
block_for_drive_any_block(objects, order, drive_path, fail) ==
    LET seq == Enumerate(order, fail)
        first[i \in 1..(Len(seq) + 1)] ==
            IF i > Len(seq) THEN None
            ELSE IF Property(objects, Proxy(seq[i], IfaceBlock), "Drive",
                             <<seq[i], "property">> \in fail) = Ok(drive_path)
                 THEN Some(seq[i])
            ELSE first[i + 1]
    IN  first[1]

block_for_drive(objects, order, drive_path, fail) ==
    LET blocks == top_level_blocks_for_drive(objects, order, drive_path, fail)
        first[i \in 1..(Len(blocks) + 1)] ==
            IF i > Len(blocks) THEN None
            ELSE IF block(objects, blocks[i], <<blocks[i], "block2">> \in fail).ok
                 THEN Some(blocks[i])
            ELSE first[i + 1]
    IN  first[1]

(***************************************************************************)
(* Inventories of drives and their block devices                           *)
(***************************************************************************)
DriveBlockBags ==
    LET full == [Drive : Refs, MDRaid : {RootPath}, MDRaidMember : {RootPath}]
    IN  full \cup {Without(b, "Drive") : b \in full}

DriveShapes ==
    {[i \in {IfaceDrive} |-> DefaultBag(i)]}
    \cup {[i \in {IfaceBlock} |-> b] : b \in DriveBlockBags}
    \cup {[i \in {IfaceBlock, IfacePartition} |->
              IF i = IfaceBlock THEN b ELSE DefaultBag(i)] : b \in DriveBlockBags}

InitDrive ==
    /\ managed_objects \in [Paths -> DriveShapes]
    /\ call = NoCall

BlockForDrive ==
    \E drv \in RefTargets, order \in Orders(managed_objects), fail \in FailPatterns :
        /\ call.op = "none"
        /\ call' = [op |-> "block_for_drive", arg |-> drv, fail |-> fail,
                    result |-> block_for_drive(managed_objects, order, drv, fail)]
        /\ UNCHANGED managed_objects

NextDrive == BlockForDrive

SpecDrive == InitDrive /\ [][NextDrive]_vars

\* the top-level blocks of a drive: Drive reference is the drive, no Partition
TopLevelBlocks(objects, drv) ==
    {p \in DOMAIN objects :
        /\ Holds(objects, p, IfaceBlock, "Drive", drv)
        /\ ~Exposes(objects, p, IfacePartition)}

\* C3: under every pattern of failing round trips, block_for_drive returns
\* only a top-level block of the drive (Drive reference is the drive, the
\* object is not a partition) and None when the drive has none.
C3_BlockForDriveTopLevel ==
    call.op = "block_for_drive" =>
        /\ call.result.some =>
              call.result.val \in TopLevelBlocks(managed_objects, call.arg)
        /\ TopLevelBlocks(managed_objects, call.arg) = {} => call.result = None

(***************************************************************************)
(* Client::jobs_for_object                                                 *)
(***************************************************************************)
\* the elements of seq that satisfy the test, in order
RECURSIVE FilterEqual(_, _)
FilterEqual(seq, value) ==
    IF seq = <<>> THEN <<>>
    ELSE IF Head(seq) = value
         THEN <<Head(seq)>> \o FilterEqual(Tail(seq), value)
         ELSE FilterEqual(Tail(seq), value)

jobs_for_object(objects, order, object_path, fail) ==
    LET seq == Enumerate(order, fail)
        scan[i \in 0..Len(seq)] ==
            IF i = 0 THEN <<>>
            ELSE LET blocks == scan[i - 1]
                     path == seq[i]
                     jb == job(objects, path, <<path, "accessor">> \in fail)
                     objs == IF jb.ok
                             THEN Property(objects, jb.val, "Objects",
                                           <<path, "property">> \in fail)
                             ELSE jb
                 IN  IF ~jb.ok THEN blocks
                     ELSE IF ~objs.ok THEN blocks
                     ELSE blocks \o FilterEqual(objs.val, object_path)
    IN  scan[Len(seq)]

(***************************************************************************)
(* Inventories of jobs                                                     *)
(***************************************************************************)
\* length of a job's list of affected objects
MaxJobObjects == 2

JobObjectLists ==
    {q \in UNION {[1..n -> Paths] : n \in 0..MaxJobObjects} : NoDuplicates(q)}

JobShapes ==
    {[i \in {IfaceBlock} |-> DefaultBag(i)]}
    \cup {[i \in {IfaceJob} |-> [Objects |-> q]] : q \in JobObjectLists}
    \cup {[i \in {IfaceJob} |-> Without(DefaultBag(i), "Objects")]}

InitJobs ==
    /\ managed_objects \in [Paths -> JobShapes]
    /\ call = NoCall

JobsForObject ==
    \E object \in Paths, order \in Orders(managed_objects) :
        /\ call.op = "none"
        /\ call' = [op |-> "jobs_for_object", arg |-> object,
                    result |-> jobs_for_object(managed_objects, order, object, NoFail)]
        /\ UNCHANGED managed_objects

NextJobs == JobsForObject

SpecJobs == InitJobs /\ [][NextJobs]_vars

\* the jobs whose list of affected objects contains the object
JobsAffecting(objects, object) ==
    {p \in DOMAIN objects :
        /\ Exposes(objects, p, IfaceJob)
        /\ "Objects" \in DOMAIN objects[p][IfaceJob]
        /\ object \in Range(objects[p][IfaceJob].Objects)}

\* C4: jobs_for_object(object) returns one entry per job whose list of
\* affected objects contains the object, each entry being that job's path,
\* and the empty list when no job affects the object.
C4_JobsForObject ==
    call.op = "jobs_for_object" =>
        /\ Range(call.result) = JobsAffecting(managed_objects, call.arg)
        /\ NoDuplicates(call.result)

(***************************************************************************)
(* Client::partition_table and Client::partitions                          *)
(***************************************************************************)
\* a partition_table that binds the table without asking for PartitionTable
Client_partition_table_unchecked(objects, partition_proxy, fail) ==
    LET table == Property(objects, partition_proxy, "Table",
                          <<partition_proxy.path, "property">> \in fail)
    IN  IF ~table.ok THEN table
        ELSE Ok(Proxy(table.val, IfacePartitionTable))

Client_partition_table(objects, partition_proxy, fail) ==
    LET table == Property(objects, partition_proxy, "Table",
                          <<partition_proxy.path, "property">> \in fail)
    IN  IF ~table.ok THEN table
        ELSE partition_table(objects, table.val,
                             <<partition_proxy.path, "accessor">> \in fail)

\* a partitions that takes every partition whose Table is readable
partitions_any_table(objects, order, table_object_path, fail) ==
    LET seq == Enumerate(order, fail)
        scan[i \in 0..Len(seq)] ==
            IF i = 0 THEN <<>>
            ELSE LET found == scan[i - 1]
                     path == seq[i]
                     part == partition(objects, path, <<path, "accessor">> \in fail)
                 IN  IF ~part.ok THEN found
                     ELSE IF Property(objects, part.val, "Table",
                                      <<path, "property">> \in fail).ok
                          THEN Append(found, path)
                     ELSE found
    IN  scan[Len(seq)]

partitions(objects, order, table_object_path, fail) ==
    LET seq == Enumerate(order, fail)
        scan[i \in 0..Len(seq)] ==
            IF i = 0 THEN <<>>
            ELSE LET found == scan[i - 1]
                     path == seq[i]
                     part == partition(objects, path, <<path, "accessor">> \in fail)
                 IN  IF ~part.ok THEN found
                     ELSE IF Property(objects, part.val, "Table",
                                      <<path, "property">> \in fail)
                                 = Ok(table_object_path)
                          THEN Append(found, path)
                     ELSE found
    IN  scan[Len(seq)]

(***************************************************************************)
(* Inventories of partition tables and partitions; an object path may be   *)
(* absent from the inventory                                               *)
(***************************************************************************)
PartitionBags ==
    LET full == [Table : Refs]
    IN  full \cup {Without(b, "Table") : b \in full}

PartShapes ==
    {[i \in {IfaceBlock} |-> DefaultBag(i)],
     [i \in {IfaceBlock, IfacePartitionTable} |-> DefaultBag(i)]}
    \cup {[i \in {IfaceBlock, IfacePartition} |->
              IF i = IfacePartition THEN b ELSE DefaultBag(i)] : b \in PartitionBags}
    \cup {[i \in {IfaceBlock, IfacePartition, IfacePartitionTable} |->
              IF i = IfacePartition THEN b ELSE DefaultBag(i)] : b \in PartitionBags}

InitPart ==
    /\ managed_objects \in UNION {[present -> PartShapes] : present \in SUBSET Paths}
    /\ call = NoCall

\* partitions(table): the table proxy comes from an object that exposes
\* PartitionTable in this inventory
Partitions ==
    \E table \in Paths, order \in Orders(managed_objects) :
        /\ call.op = "none"
        /\ partition_table(managed_objects, table, FALSE).ok
        /\ call' = [op |-> "partitions", arg |-> table,
                    result |-> partitions(managed_objects, order, table, NoFail)]
        /\ UNCHANGED managed_objects

PartitionTable ==
    \E part \in Paths :
        /\ call.op = "none"
        /\ call' = [op |-> "partition_table", arg |-> part,
                    result |-> Client_partition_table(managed_objects,
                                   Proxy(part, IfacePartition), NoFail)]
        /\ UNCHANGED managed_objects

NextPart == Partitions \/ PartitionTable

SpecPart == InitPart /\ [][NextPart]_vars

\* the partitions of a table: Partition-exposing objects whose Table is table
PartitionsOf(objects, table) ==
    {p \in DOMAIN objects : Holds(objects, p, IfacePartition, "Table", table)}

\* C5: on one inventory partitions(table) returns exactly the
\* Partition-exposing objects whose Table reference is the table, none
\* twice, and partition_table of every returned partition is that table.
C5_PartitionsOfTable ==
    call.op = "partitions" =>
        /\ Range(call.result) = PartitionsOf(managed_objects, call.arg)
        /\ NoDuplicates(call.result)
        /\ \A i \in DOMAIN call.result :
              Client_partition_table(managed_objects,
                                     Proxy(call.result[i], IfacePartition), NoFail)
                  = Ok(Proxy(call.arg, IfacePartitionTable))

C5_Witness ==
    /\ call.op = "partitions"
    /\ Len(call.result) >= 2
    /\ \E p \in DOMAIN managed_objects :
          /\ Exposes(managed_objects, p, IfacePartition)
          /\ p \notin Range(call.result)

\* C6: partition_table(partition) succeeds only when the Table reference is
\* readable and names an object that exposes PartitionTable, and then returns
\* the accessor of that object; in every other case it returns an error.
C6_PartitionTableOrError ==
    call.op = "partition_table" =>
        LET readable == /\ Exposes(managed_objects, call.arg, IfacePartition)
                        /\ "Table" \in DOMAIN managed_objects[call.arg][IfacePartition]
            table == managed_objects[call.arg][IfacePartition].Table
        IN  IF readable /\ Exposes(managed_objects, table, IfacePartitionTable)
            THEN call.result = Ok(Proxy(table, IfacePartitionTable))
            ELSE /\ ~call.result.ok
                 /\ call.result.err \in {"InterfaceNotFound", "Property", "Transport"}

C6_Witness ==
    /\ call.op = "partition_table"
    /\ \E table \in DOMAIN managed_objects :
          /\ Holds(managed_objects, call.arg, IfacePartition, "Table", table)
          /\ ~Exposes(managed_objects, table, IfacePartitionTable)
    /\ call.result = InterfaceNotFound

(***************************************************************************)
(* Client::loop_for_block                                                  *)
(***************************************************************************)
\* a loop_for_block that tries the partition's table before the own object
loop_for_block_table_first(objects, block_proxy, fail) ==
    LET path == block_proxy.path
        loop_proxy == loop(objects, path, <<path, "accessor">> \in fail)
        part == partition(objects, path, <<path, "partition">> \in fail)
        partitiontable ==
            IF part.ok THEN Client_partition_table(objects, part.val, fail) ELSE part
        table_loop ==
            IF partitiontable.ok
            THEN loop(objects, partitiontable.val.path, <<path, "block2">> \in fail)
            ELSE partitiontable
    IN  IF table_loop.ok THEN table_loop
        ELSE IF loop_proxy.ok THEN loop_proxy
        ELSE table_loop

loop_for_block(objects, block_proxy, fail) ==
    LET path == block_proxy.path
        loop_proxy == loop(objects, path, <<path, "accessor">> \in fail)
        part == partition(objects, path, <<path, "partition">> \in fail)
        partitiontable ==
            IF part.ok THEN Client_partition_table(objects, part.val, fail) ELSE part
    IN  IF loop_proxy.ok THEN loop_proxy
        ELSE IF ~part.ok THEN part
        ELSE IF ~partitiontable.ok THEN partitiontable
        ELSE loop(objects, partitiontable.val.path,
                  <<path, "block2">> \in fail)

(***************************************************************************)
(* Inventories of loop devices and their partitions                        *)
(***************************************************************************)
LoopShapes ==
    LET plain == {ifs \cup {IfaceBlock} : ifs \in SUBSET {IfacePartitionTable, IfaceLoop}}
    IN  {[i \in ifs |-> DefaultBag(i)] : ifs \in plain}
        \cup {[i \in ifs \cup {IfacePartition} |->
                  IF i = IfacePartition THEN b ELSE DefaultBag(i)] :
                      ifs \in plain, b \in PartitionBags}

InitLoop ==
    /\ managed_objects \in [Paths -> LoopShapes]
    /\ call = NoCall

LoopForBlock ==
    \E blk \in Paths :
        /\ call.op = "none"
        /\ call' = [op |-> "loop_for_block", arg |-> blk,
                    result |-> loop_for_block(managed_objects,
                                              Proxy(blk, IfaceBlock), NoFail)]
        /\ UNCHANGED managed_objects

NextLoop == LoopForBlock

SpecLoop == InitLoop /\ [][NextLoop]_vars

\* C7: loop_for_block(block) is the Loop of the block's own object when that
\* object exposes Loop; otherwise, when the object is a partition whose table
\* resolves to an object that exposes Loop, the Loop of that table object;
\* otherwise an error.
C7_LoopForBlock ==
    call.op = "loop_for_block" =>
        LET own == Exposes(managed_objects, call.arg, IfaceLoop)
            readable == /\ Exposes(managed_objects, call.arg, IfacePartition)
                        /\ "Table" \in DOMAIN managed_objects[call.arg][IfacePartition]
            table == managed_objects[call.arg][IfacePartition].Table
        IN  IF own THEN call.result = Ok(Proxy(call.arg, IfaceLoop))
            ELSE IF /\ readable
                    /\ Exposes(managed_objects, table, IfacePartitionTable)
                    /\ Exposes(managed_objects, table, IfaceLoop)
                 THEN call.result = Ok(Proxy(table, IfaceLoop))
            ELSE ~call.result.ok

\* a partition of a loop device that also exposes Loop itself: own Loop wins
C7_Witness ==
    /\ call.op = "loop_for_block"
    /\ Exposes(managed_objects, call.arg, IfaceLoop)
    /\ \E table \in DOMAIN managed_objects :
          /\ table # call.arg
          /\ Holds(managed_objects, call.arg, IfacePartition, "Table", table)
          /\ Exposes(managed_objects, table, IfacePartitionTable)
          /\ Exposes(managed_objects, table, IfaceLoop)
    /\ call.result = Ok(Proxy(call.arg, IfaceLoop))

(***************************************************************************)
(* Client::drive_siblings                                                  *)
(***************************************************************************)
\* a drive_siblings that leaves the queried drive out
drive_siblings_excluding_self(objects, order, drive_proxy, fail) ==
    LET sibling_id == Property(objects, drive_proxy, "SiblingId",
                               <<RootPath, "property">> \in fail)
        seq == Enumerate(order, fail)
        scan[i \in 0..Len(seq)] ==
            IF i = 0 THEN <<>>
            ELSE LET siblings == scan[i - 1]
                     path == seq[i]
                     iter_drive == drive(objects, path, <<path, "accessor">> \in fail)
                 IN  IF ~iter_drive.ok THEN siblings
                     ELSE IF /\ path # drive_proxy.path
                             /\ Property(objects, iter_drive.val, "SiblingId",
                                         <<path, "property">> \in fail) = sibling_id
                          THEN Append(siblings, path)
                     ELSE siblings
    IN  IF ~sibling_id.ok \/ sibling_id.val = "" THEN <<>>
        ELSE scan[Len(seq)]

drive_siblings(objects, order, drive_proxy, fail) ==
    LET sibling_id == Property(objects, drive_proxy, "SiblingId",
                               <<RootPath, "property">> \in fail)
        seq == Enumerate(order, fail)
        scan[i \in 0..Len(seq)] ==
            IF i = 0 THEN <<>>
            ELSE LET siblings == scan[i - 1]
                     path == seq[i]
                     iter_drive == drive(objects, path, <<path, "accessor">> \in fail)
                 IN  IF ~iter_drive.ok THEN siblings
                     ELSE IF Property(objects, iter_drive.val, "SiblingId",
                                      <<path, "property">> \in fail) = sibling_id
                          THEN Append(siblings, path)
                     ELSE siblings
    IN  IF ~sibling_id.ok \/ sibling_id.val = "" THEN <<>>
        ELSE scan[Len(seq)]

(***************************************************************************)
(* Inventories of drives with sibling ids                                  *)
(***************************************************************************)
SiblingIds == {"", "sibling-a", "sibling-b"}

SiblingShapes ==
    {[i \in {IfaceBlock} |-> DefaultBag(i)]}
    \cup {[i \in {IfaceDrive} |-> [SiblingId |-> id]] : id \in SiblingIds}
    \cup {[i \in {IfaceDrive} |-> Without(DefaultBag(i), "SiblingId")]}

InitSibling ==
    /\ managed_objects \in [Paths -> SiblingShapes]
    /\ call = NoCall

DriveSiblings ==
    \E drv \in Paths, order \in Orders(managed_objects) :
        /\ call.op = "none"
        /\ call' = [op |-> "drive_siblings", arg |-> drv,
                    result |-> drive_siblings(managed_objects, order,
                                              Proxy(drv, IfaceDrive), NoFail)]
        /\ UNCHANGED managed_objects

NextSibling == DriveSiblings

SpecSibling == InitSibling /\ [][NextSibling]_vars

\* the sibling id of a drive is readable
HasSiblingId(objects, path) ==
    /\ Exposes(objects, path, IfaceDrive)
    /\ "SiblingId" \in DOMAIN objects[path][IfaceDrive]

NumExposed(objects) ==
    Cardinality({pi \in Paths \X Ifaces : Exposes(objects, pi[1], pi[2])})

\* the inventory with one more interface on the object
WithInterface(objects, path, iface) ==
    LET old == IF path \in DOMAIN objects THEN objects[path] ELSE <<>>
    IN  [p \in DOMAIN objects \cup {path} |->
            IF p = path
            THEN [i \in DOMAIN old \cup {iface} |->
                     IF i = iface THEN DefaultBag(i) ELSE old[i]]
            ELSE objects[p]]

\* the inventory with one interface less on the object
WithoutInterface(objects, path, iface) ==
    LET rest == DOMAIN objects[path] \ {iface}
        present == IF rest = {} THEN DOMAIN objects \ {path} ELSE DOMAIN objects
    IN  [p \in present |->
            IF p = path THEN [i \in rest |-> objects[path][i]] ELSE objects[p]]

Change(kind, path, iface) == [kind |-> kind, path |-> path, interface |-> iface]

InitAccessor ==
    /\ managed_objects = <<>>
    /\ call = [op |-> "none", change |-> Change("none", RootPath, "")]

InterfacesAdded ==
    \E path \in Paths, iface \in Ifaces :
        /\ ~Exposes(managed_objects, path, iface)
        /\ NumExposed(managed_objects) < MaxExposed
        /\ managed_objects' = WithInterface(managed_objects, path, iface)
        /\ call' = [op |-> "none", change |-> Change("added", path, iface)]

InterfacesRemoved ==
    \E path \in Paths, iface \in Ifaces :
        /\ Exposes(managed_objects, path, iface)
        /\ managed_objects' = WithoutInterface(managed_objects, path, iface)
        /\ call' = [op |-> "none", change |-> Change("removed", path, iface)]

\* what happened to the requested interface of the object right before a call
After(path, iface) ==
    IF /\ call.op = "none"
       /\ call.change.path = path
       /\ call.change.interface = iface
    THEN call.change.kind
    ELSE "other"

\* the outcome of one accessor call on the Object handle for path
Outcome(name, path, iface, result) ==
    [op |-> name, arg |-> path, interface |-> iface,
     after |-> After(path, iface), result |-> result]

ObjectBlock ==
    \E path \in Paths :
        /\ call' = Outcome("block", path, IfaceBlock,
                           block(managed_objects, path, FALSE))
        /\ UNCHANGED managed_objects

ObjectDrive ==
    \E path \in Paths :
        /\ call' = Outcome("drive", path, IfaceDrive,
                           drive(managed_objects, path, FALSE))
        /\ UNCHANGED managed_objects

ObjectPartitionTable ==
    \E path \in Paths :
        /\ call' = Outcome("partition_table", path, IfacePartitionTable,
                           partition_table(managed_objects, path, FALSE))
        /\ UNCHANGED managed_objects

ObjectJob ==
    \E path \in Paths :
        /\ call' = Outcome("job", path, IfaceJob,
                           job(managed_objects, path, FALSE))
        /\ UNCHANGED managed_objects

ObjectLoop ==
    \E path \in Paths :
        /\ call' = Outcome("loop", path, IfaceLoop,
                           loop(managed_objects, path, FALSE))
        /\ UNCHANGED managed_objects

ObjectPartition ==
    \E path \in Paths :
        /\ call' = Outcome("partition", path, IfacePartition,
                           partition(managed_objects, path, FALSE))
        /\ UNCHANGED managed_objects

ObjectMDRaid ==
    \E path \in Paths :
        /\ call' = Outcome("mdraid", path, IfaceMDRaid,
                           mdraid(managed_objects, path, FALSE))
        /\ UNCHANGED managed_objects

NextAccessor ==
    \/ InterfacesAdded
    \/ InterfacesRemoved
    \/ ObjectBlock
    \/ ObjectDrive
    \/ ObjectPartitionTable
    \/ ObjectJob
    \/ ObjectLoop
    \/ ObjectPartition
    \/ ObjectMDRaid

SpecAccessor == InitAccessor /\ [][NextAccessor]_vars

Accessors == {"block", "drive", "partition_table", "job", "loop", "partition", "mdraid"}

\* C9: an accessor fails with InterfaceNotFound both when the object path is
\* absent from the inventory and when the object does not expose the
\* requested interface; it never returns an accessor for an interface the
\* object does not expose.
C9_InterfaceNotFound ==
    call.op \in Accessors =>
        /\ ~Exposes(managed_objects, call.arg, call.interface)
              => call.result = InterfaceNotFound
        /\ call.result.ok =>
              /\ call.result.val = Proxy(call.arg, call.interface)
              /\ Exposes(managed_objects, call.arg, call.interface)

\* an object that is present but does not expose the requested interface
C9_Witness ==
    /\ call.op \in Accessors
    /\ call.arg \in DOMAIN managed_objects
    /\ ~Exposes(managed_objects, call.arg, call.interface)
    /\ call.result = InterfaceNotFound
    /\ \E path \in Paths : path \notin DOMAIN managed_objects

\* C10: the outcome of an accessor call is decided by the inventory at that
\* call: it succeeds exactly when the object exposes the requested interface
\* and fails with InterfaceNotFound otherwise; the next call after the
\* interface is removed fails, the next call after it is added succeeds.
C10_OutcomeFollowsInventory ==
    call.op \in Accessors =>
        /\ call.result.ok <=> Exposes(managed_objects, call.arg, call.interface)
        /\ ~call.result.ok => call.result = InterfaceNotFound
        /\ call.after = "removed" => call.result = InterfaceNotFound
        /\ call.after = "added" => call.result.ok

(***************************************************************************)
(* Byte sizes.  A u64 does not fit the integers of the checker, so a size  *)
(* is a sequence of base-10000 digits, least significant first (<<>> is    *)
(* 0).  The sizes of the model stay below 2^53, where `size as f64` is     *)
(* exact.                                                                  *)
(***************************************************************************)
RECURSIVE BigFromNat(_)
BigFromNat(n) ==
    IF n = 0 THEN <<>> ELSE <<n % 10000>> \o BigFromNat(n \div 10000)

RECURSIVE BigToNat(_)
BigToNat(a) ==
    IF a = <<>> THEN 0 ELSE Head(a) + 10000 * BigToNat(Tail(a))

\* a * m + carry for a small multiplier m >= 1
RECURSIVE BigMulAdd(_, _, _)
BigMulAdd(a, m, carry) ==
    IF a = <<>> THEN BigFromNat(carry)
    ELSE LET t == Head(a) * m + carry
         IN  <<t % 10000>> \o BigMulAdd(Tail(a), m, t \div 10000)

RECURSIVE BigAddCarry(_, _, _)
BigAddCarry(a, b, carry) ==
    IF a = <<>> /\ b = <<>> THEN BigFromNat(carry)
    ELSE LET x == IF a = <<>> THEN 0 ELSE Head(a)
             y == IF b = <<>> THEN 0 ELSE Head(b)
             t == x + y + carry
         IN  <<t % 10000>>
                 \o BigAddCarry(IF a = <<>> THEN a ELSE Tail(a),
                                IF b = <<>> THEN b ELSE Tail(b), t \div 10000)

\* a < b; leading zero digits do not matter
BigLess(a, b) ==
    LET digit(x, i) == IF i <= Len(x) THEN x[i] ELSE 0
        n == IF Len(a) < Len(b) THEN Len(b) ELSE Len(a)
    IN  \E i \in 1..n :
            /\ digit(a, i) < digit(b, i)
            /\ \A j \in (i + 1)..n : digit(a, j) = digit(b, j)

\* the product of small factors
RECURSIVE BigProduct(_)
BigProduct(factors) ==
    IF factors = <<>> THEN BigFromNat(1)
    ELSE BigMulAdd(BigProduct(Tail(factors)), Head(factors), 0)

\* a divided by every divisor in turn: floor(a / product), and whether the
\* division left no remainder
RECURSIVE BigDivAll(_, _)
BigDivAll(a, divisors) ==
    IF divisors = <<>> THEN [quot |-> a, exact |-> TRUE]
    ELSE LET d == Head(divisors)
             n == Len(a)
             rem[i \in 1..(n + 1)] ==
                 IF i = n + 1 THEN 0 ELSE (rem[i + 1] * 10000 + a[i]) % d
             quot == [i \in 1..n |-> (rem[i + 1] * 10000 + a[i]) \div d]
             rest == BigDivAll(quot, Tail(divisors))
         IN  [quot |-> rest.quot, exact |-> rest.exact /\ rem[1] = 0]

(***************************************************************************)
(* Text.  A format string is a sequence of pieces, the placeholders "{}",  *)
(* "%s" and "%u" being pieces of their own; a String is the concatenation  *)
(* of its pieces.                                                          *)
(***************************************************************************)
RECURSIVE Concat(_)
Concat(pieces) ==
    IF pieces = <<>> THEN "" ELSE Head(pieces) \o Concat(Tail(pieces))

\* str::replace: every occurrence
replace(s, from, to) == [i \in DOMAIN s |-> IF s[i] = from THEN to ELSE s[i]]

\* str::replacen(.., 1): the first occurrence
RECURSIVE replacen(_, _, _)
replacen(s, from, to) ==
    IF s = <<>> THEN s
    ELSE IF Head(s) = from THEN <<to>> \o Tail(s)
    ELSE <<Head(s)>> \o replacen(Tail(s), from, to)

RECURSIVE arg_replace(_, _)
arg_replace(s, args) ==
    IF args = <<>> THEN s
    ELSE arg_replace(replacen(s, "%s", Head(args)), Tail(args))

\* the message catalogue of the untranslated locale returns the msgid
gettext(msgid) == msgid
pgettext(msgctxt, msgid) == msgid
\* dgettext is asked for "msgctxt\u{004}msgid" and returns it untranslated
dpgettext(msgctxt, msgid) == msgctxt \o "\\u{004}" \o msgid

gettext_f(format, args) == arg_replace(gettext(replace(format, "{}", "%s")), args)
pgettext_f(msgctxt, format, args) ==
    arg_replace(pgettext(msgctxt, replace(format, "{}", "%s")), args)

\* the decimal digits of an unsigned integer, as characters
RECURSIVE to_chars(_)
to_chars(n) ==
    LET digit(d) == <<"0", "1", "2", "3", "4", "5", "6", "7", "8", "9">>[d + 1]
    IN  IF n < 10 THEN <<digit(n)>>
        ELSE to_chars(n \div 10) \o <<digit(n % 10)>>

to_string(n) == Concat(to_chars(n))

(***************************************************************************)
(* Client::size_for_display                                                *)
(***************************************************************************)
\* the factors, each the product written in the source
KILOBYTE_FACTOR == <<1000>>
MEGABYTE_FACTOR == <<1000, 1000>>
GIGABYTE_FACTOR == <<1000, 1000, 1000>>
TERABYTE_FACTOR == <<1000, 1000, 1000, 1000>>

KIBIBYTE_FACTOR == <<1024>>
MEBIBYTE_FACTOR == <<1024, 1024>>
GIBIBYTE_FACTOR == <<1024, 1024, 1024>>
TEBIBYTE_FACTOR == <<1024, 1024, 1024, 10242>>

\* display_size, a quotient `size / FACTOR`, is kept as the pair it is
\* computed from; display_size < 10.0
BelowTen(display_size) ==
    BigLess(display_size.num, BigMulAdd(BigProduct(display_size.den), 10, 0))

\* display_size * 10^digits rounded to the nearest integer.  A quotient that
\* lies exactly half way is rounded by the formatter according to the
\* representation error of the f64 and the tie rule of the toolchain:
\* tie_up is the outcome of that.
Rounded(display_size, digits, tie_up) ==
    LET doubled == BigMulAdd(display_size.num, IF digits = 1 THEN 20 ELSE 2, 0)
        biased == BigAddCarry(doubled, BigProduct(display_size.den), 0)
        q == BigDivAll(biased, <<2>> \o display_size.den)
    IN  IF q.exact /\ ~tie_up THEN BigToNat(q.quot) - 1 ELSE BigToNat(q.quot)

\* format!("{:.digits$} {}", display_size, unit)
format_size(display_size, unit, tie_up) ==
    LET digits == IF BelowTen(display_size) THEN 1 ELSE 0
        shown == Rounded(display_size, digits, tie_up)
    IN  IF digits = 1
        THEN Concat(<<to_string(shown \div 10), ".", to_string(shown % 10), " ", unit>>)
        ELSE Concat(<<to_string(shown), " ", unit>>)

\* the unit pow2_size chooses and the quotient it displays
pow2_scale(size) ==
    IF BigLess(size, BigProduct(MEBIBYTE_FACTOR))
    THEN [display_size |-> [num |-> size, den |-> KIBIBYTE_FACTOR],
          unit |-> pgettext("byte-size-pow2", "KiB")]
    ELSE IF BigLess(size, BigProduct(GIBIBYTE_FACTOR))
    THEN [display_size |-> [num |-> size, den |-> MEBIBYTE_FACTOR],
          unit |-> pgettext("byte-size-pow2", "MiB")]
    ELSE IF BigLess(size, BigProduct(TEBIBYTE_FACTOR))
    THEN [display_size |-> [num |-> size, den |-> GIBIBYTE_FACTOR],
          unit |-> pgettext("byte-size-pow2", "GiB")]
    ELSE [display_size |-> [num |-> size, den |-> TEBIBYTE_FACTOR],
          unit |-> pgettext("byte-size-pow2", "TiB")]

pow2_size(size, tie_up) ==
    format_size(pow2_scale(size).display_size, pow2_scale(size).unit, tie_up)

\* the unit pow10_size chooses and the quotient it displays
pow10_scale(size) ==
    IF BigLess(size, BigProduct(MEGABYTE_FACTOR))
    THEN [display_size |-> [num |-> size, den |-> KILOBYTE_FACTOR],
          unit |-> pgettext("byte-size-pow10", "KB")]
    ELSE IF BigLess(size, BigProduct(GIGABYTE_FACTOR))
    THEN [display_size |-> [num |-> size, den |-> MEGABYTE_FACTOR],
          unit |-> pgettext("byte-size-pow10", "MB")]
    ELSE IF BigLess(size, BigProduct(TERABYTE_FACTOR))
    THEN [display_size |-> [num |-> size, den |-> GIGABYTE_FACTOR],
          unit |-> pgettext("byte-size-pow10", "GB")]
    ELSE [display_size |-> [num |-> size, den |-> TERABYTE_FACTOR],
          unit |-> pgettext("byte-size-pow10", "TB")]

pow10_size(size, tie_up) ==
    format_size(pow10_scale(size).display_size, pow10_scale(size).unit, tie_up)

size_for_display(size, use_pow2, long_str, tie_up) ==
    LET pow_size == IF use_pow2 THEN pow2_size(size, tie_up)
                    ELSE pow10_size(size, tie_up)
        \* size.to_string(): the digits above 10^8, then the eight below
        hi == BigToNat(BigDivAll(size, <<10000, 10000>>).quot)
        lo == BigToNat(SubSeq(size, 1, IF Len(size) < 2 THEN Len(size) ELSE 2))
        size_to_string ==
            IF hi = 0 THEN to_string(lo)
            ELSE Concat(to_chars(hi) \o Tail(to_chars(100000000 + lo)))
    IN  IF ~long_str THEN pow_size
        ELSE IF use_pow2
        THEN Concat(pgettext_f("byte-size-pow2", <<"{}", " (", "{}", " bytes)">>,
                               <<pow_size, size_to_string>>))
        ELSE Concat(pgettext_f("byte-size-pow10", <<"{}", " (", "{}", " bytes)">>,
                               <<pow_size, size_to_string>>))

(***************************************************************************)
(* ObjectInfo (object_info.rs).  A call either returns the ObjectInfo or   *)
(* aborts in an unwrap()/expect() on a value that is not there.  The em    *)
(* dash of the one-liners is written \u{2014}.                             *)
(***************************************************************************)
Returned(info) == [aborted |-> FALSE, info |-> info]
Panic(message) == [aborted |-> TRUE, message |-> message]

Icon(name, name_symbolic) == [name |-> name, name_symbolic |-> name_symbolic]

set_if_none(icon, name, name_symbolic) ==
    Icon(IF icon.name.some THEN icon.name ELSE Some(name),
         IF icon.name_symbolic.some THEN icon.name_symbolic ELSE Some(name_symbolic))

ObjectInfo_new ==
    [name |-> None, description |-> None, icon |-> Icon(None, None),
     media_description |-> None, media_icon |-> Icon(None, None),
     one_liner |-> None, sort_key |-> None]

\* result.unwrap_or_default()
unwrap_or(result, default) == IF result.ok THEN result.val ELSE default

\* a byte array property is the text and whether a NUL byte ends it;
\* CString::from_vec_with_nul(..).ok() and then to_str()
cstring_to_string(result) ==
    IF result.ok /\ result.val.nul_terminated THEN Some(result.val.bytes) ELSE None

\* object paths of the model end in the decimal number of the object:
\* object_path().split('/').next_back()
LastSegment(path) == to_chars(path)

\* the sort keys are compared character by character, so they are sequences
\* of characters
drive_sort_key(sort_key) ==
    <<"0", "0", "_", "d", "r", "i", "v", "e", "_">> \o sort_key
mdraid_sort_key(uuid, partition_number) ==
    <<"0", "1", "_", "m", "d", "r", "a", "i", "d", "_">>
        \o uuid \o <<"_">> \o to_chars(partition_number)
block_sort_key(segment, partition_number) ==
    <<"0", "2", "_", "b", "l", "o", "c", "k", "_">>
        \o segment \o <<"_">> \o to_chars(partition_number)
\* a loop sort key that carries the category prefix of the plain blocks
loop_sort_key_block_prefix(segment, partition_number) ==
    <<"0", "2", "_", "b", "l", "o", "c", "k", "_">>
        \o segment \o <<"_">> \o to_chars(partition_number)
loop_sort_key(segment, partition_number) ==
    <<"0", "3", "_", "l", "o", "o", "p", "_">>
        \o segment \o <<"_">> \o to_chars(partition_number)

info_for_block(objects, object_path, blk, part, tie_up) ==
    LET name == cstring_to_string(Property(objects, blk, "PreferredDevice", FALSE))
        size == Property(objects, blk, "Size", FALSE)
        plain ==
            IF size.ok
            THEN Concat(gettext_f(<<"{}", " Block Device">>,
                            <<size_for_display(size.val, FALSE, FALSE, tie_up)>>))
            ELSE gettext("Block Device")
        partition_number ==
            IF part.some THEN Property(objects, part.val, "Number", FALSE)
            ELSE PropertyError
        description ==
            IF part.some
            THEN Concat(replace(pgettext_f("part-block",
                                    <<"Partition ", "%u", " of ", "{}">>, <<plain>>),
                                "%u", to_string(partition_number.val)))
            ELSE plain
    IN  IF part.some /\ ~partition_number.ok
        THEN Panic("Failed to read partition number")
        ELSE IF ~name.some THEN Panic("called Option::unwrap() on a None value")
        ELSE Returned(
            [name |-> name,
             description |-> Some(description),
             icon |-> Icon(Some("drive-removable-media"),
                           Some("drive-removable-media-symbolic")),
             media_description |-> None,
             media_icon |-> Icon(None, None),
             one_liner |-> Some(Concat(pgettext_f("one-liner-block",
                                   <<"{}", " (", "{}", ")">>,
                                   <<description, name.val>>))),
             sort_key |-> Some(block_sort_key(LastSegment(object_path),
                                  unwrap_or(partition_number, 0)))])

info_for_loop(objects, object_path, loop_proxy, blk, part, tie_up) ==
    LET name == cstring_to_string(Property(objects, loop_proxy, "BackingFile", FALSE))
        size == Property(objects, blk, "Size", FALSE)
        plain ==
            IF size.ok
            THEN Concat(gettext_f(<<"{}", " Loop Device">>,
                            <<size_for_display(size.val, FALSE, FALSE, tie_up)>>))
            ELSE gettext("Loop Device")
        partition_number ==
            IF part.some THEN Property(objects, part.val, "Number", FALSE)
            ELSE PropertyError
        description ==
            IF part.some
            THEN Concat(replace(pgettext_f("part-loop",
                                    <<"Partition ", "%u", " of ", "{}">>, <<plain>>),
                                "%u", to_string(partition_number.val)))
            ELSE plain
        preferred_device ==
            cstring_to_string(Property(objects, blk, "PreferredDevice", FALSE))
    IN  IF part.some /\ ~partition_number.ok
        THEN Panic("Failed to read partition number")
        ELSE IF ~name.some THEN Panic("called Option::unwrap() on a None value")
        ELSE Returned(
            [name |-> name,
             description |-> Some(description),
             icon |-> Icon(Some("drive-removable-media"),
                           Some("drive-removable-media-symbolic")),
             media_description |-> None,
             media_icon |-> Icon(None, None),
             one_liner |-> Some(Concat(pgettext_f("one-liner-loop",
                                   <<"{}", " \\u{2014} ", "{}", " (", "{}", ")">>,
                                   <<description, name.val,
                                     IF preferred_device.some
                                     THEN preferred_device.val ELSE "">>))),
             sort_key |-> Some(loop_sort_key(LastSegment(object_path),
                                  unwrap_or(partition_number, 0)))])

format_level(level) ==
    pgettext("mdraid-desc",
             CASE level = Ok("raid0") -> "RAID-0 Array"
               [] level = Ok("raid1") -> "RAID-1 Array"
               [] level = Ok("raid4") -> "RAID-4 Array"
               [] level = Ok("raid5") -> "RAID-5 Array"
               [] level = Ok("raid6") -> "RAID-6 Array"
               [] level = Ok("raid10") -> "RAID-10 Array"
               [] OTHER -> "RAID Array")

\* the Name of an array is the sequence of its ':'-separated parts
info_for_mdraid(objects, order, raid, part, fail, tie_up) ==
    LET name_parts == unwrap_or(Property(objects, raid, "Name", FALSE), <<"">>)
        name == name_parts[Len(name_parts)]
        level == Property(objects, raid, "Level", FALSE)
        size == Property(objects, raid, "Size", FALSE)
        plain ==
            IF size.ok
            THEN Concat(pgettext_f("mdraid-desc", <<"{}", " ", "{}">>,
                            <<size_for_display(size.val, FALSE, FALSE, tie_up),
                              format_level(level)>>))
            ELSE format_level(level)
        partition_number ==
            IF part.some THEN Property(objects, part.val, "Number", FALSE)
            ELSE PropertyError
        description ==
            IF part.some
            THEN Concat(replace(pgettext_f("part-raid",
                                    <<"Partition ", "%u", " of ", "{}">>,
                                    <<to_string(partition_number.val), plain>>),
                                "%u", to_string(partition_number.val)))
            ELSE plain
        blk == block_for_mdraid(objects, order, raid.path, fail)
        preferred_device ==
            cstring_to_string(Property(objects, Proxy(blk.val, IfaceBlock),
                                       "PreferredDevice", FALSE))
        one_liner ==
            IF name # ""
            THEN IF blk.some
                 THEN pgettext_f("one-liner-mdraid-running",
                          <<"{}", " \\u{2014} ", "{}", " (", "{}", ")">>,
                          <<name, description, preferred_device.val>>)
                 ELSE pgettext_f("one-liner-mdraid-not-running",
                          <<"{}", " \\u{2014} ", "{}">>, <<name, description>>)
            ELSE IF blk.some
                 THEN pgettext_f("one-liner-mdraid-no-name-running",
                          <<"{}", " \\u{2014} ", "{}">>,
                          <<description, preferred_device.val>>)
                 ELSE pgettext_f("one-liner-mdraid-no-name-not-running",
                          <<"{}">>, <<description>>)
        uuid == Property(objects, raid, "UUID", FALSE)
    IN  IF part.some /\ ~partition_number.ok
        THEN Panic("Failed to read partition number")
        ELSE IF blk.some /\ ~preferred_device.some
        THEN Panic("Failed to get preferred device")
        ELSE IF ~uuid.ok THEN Panic("Failed to get mdraid uuid")
        ELSE Returned(
            [name |-> Some(name),
             description |-> Some(description),
             icon |-> Icon(Some("drive-multidisk"), Some("drive-multidisk-symbolic")),
             media_description |-> None,
             media_icon |-> Icon(None, None),
             one_liner |-> Some(Concat(one_liner)),
             sort_key |-> Some(mdraid_sort_key(uuid.val,
                                  unwrap_or(partition_number, 0)))])

\* the table of known media: the entries for a thumb drive, an SD card and
\* a CD
MEDIA_DATA ==
    <<[id |-> "thumb", media_name |-> "Thumb", media_family |-> "Thumb",
       media_icon |-> "media-removable",
       media_icon_symbolic |-> "media-removable-symbolic",
       drive_icon |-> "media-removable",
       drive_icon_symbolic |-> "media-removable-symbolic",
       media_type |-> "Drive"],
      [id |-> "flash_sd", media_name |-> "SD", media_family |-> "SecureDigital",
       media_icon |-> "media-flash-sd",
       media_icon_symbolic |-> "media-flash-sd-symbolic",
       drive_icon |-> "drive-removable-media-flash-sd",
       drive_icon_symbolic |-> "drive-removable-media-flash-sd-symbolic",
       media_type |-> "Card"],
      [id |-> "optical_cd", media_name |-> "CD-ROM", media_family |-> "CD",
       media_icon |-> "media-optical-cd-rom",
       media_icon_symbolic |-> "media-optical-symbolic",
       drive_icon |-> "drive-optical",
       drive_icon_symbolic |-> "drive-optical-symbolic",
       media_type |-> "Disc"]>>

\* RotationRate::try_from
RotationRate(v) ==
    IF v = -1 THEN "Unknown" ELSE IF v = 0 THEN "NonRotating" ELSE "Rotating"

\* the loop of info_for_drive over MEDIA_DATA
media_scan(media_removable, media_available, media, media_compat) ==
    LET scan[i \in 0..Len(MEDIA_DATA)] ==
            IF i = 0
            THEN [icon |-> Icon(None, None), desc |-> <<>>, desc_type |-> None,
                  media_description |-> None, media_icon |-> Icon(None, None)]
            ELSE LET prev == scan[i - 1]
                     media_data == MEDIA_DATA[i]
                     compatible == media_data.id \in Range(media_compat)
                     inserted == /\ media_removable
                                 /\ media_available
                                 /\ media = media_data.id
                     media_name == dpgettext("media-type", media_data.media_name)
                 IN  [icon |->
                          IF compatible
                          THEN set_if_none(prev.icon, media_data.drive_icon,
                                           media_data.drive_icon_symbolic)
                          ELSE prev.icon,
                      desc |->
                          IF compatible /\ media_data.media_family \notin Range(prev.desc)
                          THEN Append(prev.desc,
                                      pgettext("media-type", media_data.media_family))
                          ELSE prev.desc,
                      desc_type |->
                          IF compatible THEN Some(media_data.media_type)
                          ELSE prev.desc_type,
                      media_description |->
                          IF inserted /\ ~prev.media_description.some
                          THEN Some(Concat(
                                 CASE media_data.media_type = "Drive" ->
                                        pgettext_f("drive-with-fixed-media",
                                            <<"{}", " Drive">>, <<media_name>>)
                                   [] media_data.media_type = "Disk" ->
                                        pgettext_f("drive-with-generic-media",
                                            <<"{}", " Disk">>, <<media_name>>)
                                   [] media_data.media_type = "Card" ->
                                        pgettext_f("flash-media",
                                            <<"{}", " Card">>, <<media_name>>)
                                   [] OTHER ->
                                        pgettext_f("optical-media",
                                            <<"{}", " Disc">>, <<media_name>>)))
                          ELSE prev.media_description,
                      media_icon |->
                          IF inserted
                          THEN set_if_none(prev.media_icon, media_data.media_icon,
                                           media_data.media_icon_symbolic)
                          ELSE prev.media_icon]
    IN  scan[Len(MEDIA_DATA)]

info_for_drive(objects, order, drv, part, fail, tie_up) ==
    LET vendor == unwrap_or(Property(objects, drv, "Vendor", FALSE), "")
        name == Concat(<<vendor, IF vendor = "" THEN "" ELSE " ",
                         unwrap_or(Property(objects, drv, "Model", FALSE), "")>>)
        media_removable ==
            unwrap_or(Property(objects, drv, "MediaRemovable", FALSE), FALSE)
        media_available ==
            unwrap_or(Property(objects, drv, "MediaAvailable", FALSE), FALSE)
        media == Property(objects, drv, "Media", FALSE)
        media_compat ==
            unwrap_or(Property(objects, drv, "MediaCompatibility", FALSE), <<>>)
        size_read == Property(objects, drv, "Size", FALSE)
        rotation_read == Property(objects, drv, "RotationRate", FALSE)
        rotation_rate == IF rotation_read.ok THEN RotationRate(rotation_read.val)
                         ELSE "NonRotating"
        \* the rest of the function, from what the loop over MEDIA_DATA,
        \* size_for_display and block_for_drive gave
        present(scanned, size, blk) ==
            LET desc == LET joined[i \in 0..Len(scanned.desc)] ==
                                IF i = 0 THEN ""
                                ELSE IF i = 1 THEN scanned.desc[1]
                                ELSE Concat(<<joined[i - 1], "/", scanned.desc[i]>>)
                        IN  joined[Len(scanned.desc)]
                desc_type == scanned.desc_type
                synthesized ==
                    IF ~desc_type.some
                    THEN IF media_removable
                         THEN IF size.some
                              THEN Concat(pgettext_f("drive-with-size",
                                              <<"{}", " Drive">>, <<size.val>>))
                              ELSE pgettext("generic-drive", "Drive")
                         ELSE IF rotation_rate = "NonRotating"
                         THEN IF size.some
                              THEN Concat(pgettext_f("disk-non-rotational",
                                              <<"{}", " Disk">>, <<size.val>>))
                              ELSE pgettext("disk-non-rotational", "Disk")
                         ELSE IF size.some
                              THEN Concat(pgettext_f("disk-hdd",
                                              <<"{}", " Hard Disk">>, <<size.val>>))
                              ELSE pgettext("disk-hdd", "Hard Disk")
                    ELSE IF desc_type.val = "Card"
                    THEN Concat(pgettext_f("drive-card-reader",
                                    <<"{}", " Card Reader">>, <<desc>>))
                    ELSE IF size.some /\ ~media_removable
                         THEN Concat(pgettext_f("drive-with-size-and-type",
                                         <<"{}", " ", "{}", " Drive">>, <<size.val, desc>>))
                         ELSE Concat(pgettext_f("drive-with-type",
                                         <<"{}", " Drive">>, <<desc>>))
                bus == Property(objects, drv, "ConnectionBus", FALSE)
                hyphenated_connection_bus ==
                    IF bus.ok /\ bus.val # "" THEN "-" \o bus.val ELSE ""
                fallback ==
                    IF media_removable THEN "drive-removable-media"
                    ELSE IF rotation_rate = "NonRotating" THEN "drive-harddisk-solidstate"
                    ELSE "drive-harddisk"
                icon_fallback == fallback \o hyphenated_connection_bus
                icon_symbolic_fallback == fallback \o hyphenated_connection_bus \o "-symbolic"
                icon == set_if_none(scanned.icon, icon_fallback, icon_symbolic_fallback)
                media_icon ==
                    IF media_available
                    THEN set_if_none(scanned.media_icon, icon_fallback, icon_symbolic_fallback)
                    ELSE scanned.media_icon
                audio == Property(objects, drv, "OpticalNumAudioTracks", FALSE)
                data == Property(objects, drv, "OpticalNumDataTracks", FALSE)
                scanned_media == IF scanned.media_description.some
                                 THEN scanned.media_description.val ELSE ""
                media_description ==
                    IF unwrap_or(Property(objects, drv, "OpticalBlank", FALSE), FALSE)
                    THEN Some(Concat(pgettext_f("optical-media",
                                         <<"Blank ", "{}">>, <<scanned_media>>)))
                    ELSE IF (audio.ok /\ audio.val > 0) /\ (data.ok /\ data.val > 0)
                    THEN Some(Concat(pgettext_f("optical-media",
                                         <<"Mixed ", "{}">>, <<scanned_media>>)))
                    ELSE IF (audio.ok /\ audio.val > 0) /\ (data.ok /\ data.val = 0)
                    THEN Some(Concat(pgettext_f("optical-media",
                                         <<"Audio ", "{}">>, <<scanned_media>>)))
                    ELSE scanned.media_description
                blk_proxy == Proxy(blk.val, IfaceBlock)
                hint == IF blk.some THEN Property(objects, blk_proxy, "HintName", FALSE)
                        ELSE PropertyError
                hint_icon == IF blk.some
                             THEN Property(objects, blk_proxy, "HintIconName", FALSE)
                             ELSE PropertyError
                hint_icon_symbolic ==
                    IF blk.some THEN Property(objects, blk_proxy, "HintSymbolicIconName", FALSE)
                    ELSE PropertyError
                hinted == hint.ok /\ hint.val # ""
                icon_hinted == hint_icon.ok /\ hint_icon.val # ""
                symbolic_hinted == hint_icon_symbolic.ok /\ hint_icon_symbolic.val # ""
                described == IF hinted THEN hint.val ELSE synthesized
                partition_block ==
                    IF part.some
                    THEN block(objects, part.val.path, <<part.val.path, "accessor">> \in fail)
                    ELSE InterfaceNotFound
                block_for_partition ==
                    IF partition_block.ok THEN Some(partition_block.val)
                    ELSE IF blk.some THEN Some(blk_proxy)
                    ELSE None
                description ==
                    IF part.some
                    THEN Concat(replace(pgettext_f("part-drive",
                                            <<"Partition ", "%u", " of ", "{}">>, <<described>>),
                                        "%u",
                                        to_string(unwrap_or(
                                            Property(objects, part.val, "Number", FALSE), 0))))
                    ELSE described
                drive_revision == Property(objects, drv, "Revision", FALSE)
                device(proxy) ==
                    LET dev == cstring_to_string(
                                   Property(objects, proxy, "PreferredDevice", FALSE))
                    IN  IF dev.some THEN dev.val ELSE ""
                one_liner ==
                    IF ~blk.some THEN None
                    ELSE IF drive_revision.ok
                    THEN Some(Concat(pgettext_f("one-liner-drive",
                                  <<"{}", " \\u{2014} ", "{}", " [", "{}", "] (", "{}", ")">>,
                                  <<description, name, drive_revision.val,
                                    device(blk_proxy)>>)))
                    ELSE Some(Concat(pgettext_f("one-liner-drive",
                                  <<"{}", " \\u{2014} ", "{}", " (", "{}", ")">>,
                                  <<description, name, device(block_for_partition.val)>>)))
            IN  IF ~media.ok THEN Panic("called Result::unwrap() on an Err value")
                ELSE Returned(
                    [name |-> Some(name),
                     description |-> Some(description),
                     icon |-> Icon(IF icon_hinted THEN Some(hint_icon.val) ELSE icon.name,
                                   IF symbolic_hinted THEN Some(hint_icon_symbolic.val)
                                   ELSE icon.name_symbolic),
                     media_description |-> IF hinted THEN Some(hint.val) ELSE media_description,
                     media_icon |->
                         Icon(IF icon_hinted THEN Some(hint_icon.val) ELSE media_icon.name,
                              IF symbolic_hinted THEN Some(hint_icon_symbolic.val)
                              ELSE media_icon.name_symbolic),
                     one_liner |-> one_liner,
                     sort_key |-> Some(drive_sort_key(
                                      unwrap_or(Property(objects, drv, "SortKey", FALSE),
                                                <<>>)))])
    IN  present(media_scan(media_removable, media_available, media.val, media_compat),
                IF size_read.ok
                THEN Some(size_for_display(size_read.val, FALSE, FALSE, tie_up))
                ELSE None,
                block_for_drive(objects, order, drv.path, fail))

(***************************************************************************)
(* Client::drive_for_block, Client::mdraid_for_block, Client::object_info   *)
(***************************************************************************)
drive_for_block(objects, blk, fail) ==
    LET drv == Property(objects, blk, "Drive", <<blk.path, "property">> \in fail)
    IN  IF ~drv.ok THEN drv
        ELSE drive(objects, drv.val, <<blk.path, "accessor">> \in fail)

mdraid_for_block(objects, blk, fail) ==
    LET raid == Property(objects, blk, "MDRaid", <<blk.path, "property">> \in fail)
    IN  IF ~raid.ok THEN raid
        ELSE mdraid(objects, raid.val, <<blk.path, "accessor">> \in fail)

\* the round trips of object_info on the object itself, each of which may
\* fail: the accessors object.drive(), object.mdraid(), object.block(),
\* object.partition() and object.loop()
object_info(objects, order, path, fail, tie_up) ==
    LET drv == drive(objects, path, <<path, "object.drive">> \in fail)
        raid == mdraid(objects, path, <<path, "object.mdraid">> \in fail)
        blk == block(objects, path, <<path, "object.block">> \in fail)
        part == partition(objects, path, <<path, "object.partition">> \in fail)
        part_ok == IF part.ok THEN Some(part.val) ELSE None
        block_drive == drive_for_block(objects, blk.val, fail)
        block_mdraid == mdraid_for_block(objects, blk.val, fail)
        loop_proxy == loop(objects, path, <<path, "object.loop">> \in fail)
        \* the third branch of the chain: neither Drive nor MDRaid, but Block
        of_block == ~drv.ok /\ ~raid.ok /\ blk.ok
    IN  IF drv.ok \/ (of_block /\ block_drive.ok)
        THEN info_for_drive(objects, order,
                            IF drv.ok THEN drv.val ELSE block_drive.val,
                            IF drv.ok THEN None ELSE part_ok, fail, tie_up)
        ELSE IF raid.ok \/ (of_block /\ block_mdraid.ok)
        THEN info_for_mdraid(objects, order,
                             IF raid.ok THEN raid.val ELSE block_mdraid.val,
                             IF raid.ok THEN None ELSE part_ok, fail, tie_up)
        ELSE IF ~blk.ok THEN Returned(ObjectInfo_new)
        ELSE IF loop_proxy.ok
        THEN info_for_loop(objects, path, loop_proxy.val, blk.val, part_ok, tie_up)
        ELSE info_for_block(objects, path, blk.val, part_ok, tie_up)

(***************************************************************************)
(* Inventories for the presentation: a drive, a RAID array, block devices  *)
(* of drives and arrays, loop devices, partitions, and a job               *)
(***************************************************************************)
\* the object with these interfaces, its block device referring to drv and raid
InfoObject(ifaces, drv, raid) ==
    [i \in ifaces |->
        CASE i = IfaceDrive ->
               [Vendor |-> "ATA", Model |-> "SSD1", Revision |-> "",
                MediaRemovable |-> FALSE, MediaAvailable |-> TRUE, Media |-> "",
                MediaCompatibility |-> <<>>,
                Size |-> BigProduct(<<500, 1000, 1000, 1000>>),
                RotationRate |-> 0, ConnectionBus |-> "", OpticalBlank |-> FALSE,
                OpticalNumAudioTracks |-> 0, OpticalNumDataTracks |-> 0,
                SortKey |-> <<"a">>, SiblingId |-> ""]
          [] i = IfaceBlock ->
               [Drive |-> drv, MDRaid |-> raid, MDRaidMember |-> RootPath,
                PreferredDevice |-> [bytes |-> "/dev/sda", nul_terminated |-> TRUE],
                Size |-> BigProduct(<<500, 1000, 1000, 1000>>),
                HintName |-> "", HintIconName |-> "", HintSymbolicIconName |-> ""]
          [] i = IfacePartition -> [Table |-> RootPath, Number |-> 1]
          [] i = IfaceMDRaid ->
               [Name |-> <<"myhost", "data">>, Level |-> "raid5",
                Size |-> BigProduct(<<3, 1000, 1000, 1000, 1000>>), UUID |-> <<"u">>]
          [] i = IfaceLoop ->
               [BackingFile |-> [bytes |-> "/home/file.iso", nul_terminated |-> TRUE]]
          [] OTHER -> DefaultBag(i)]

\* the object with one property of one interface unreadable
Unreadable(object, iface, name) ==
    [i \in DOMAIN object |->
        IF i = iface THEN Without(object[i], name) ELSE object[i]]

\* what a reference may point at: a job, a drive, an array
InfoTargetShapes ==
    {InfoObject({IfaceJob}, RootPath, RootPath),
     InfoObject({IfaceDrive}, RootPath, RootPath),
     InfoObject({IfaceDrive, IfaceBlock}, RootPath, RootPath),
     InfoObject({IfaceMDRaid}, RootPath, RootPath),
     Unreadable(InfoObject({IfaceDrive}, RootPath, RootPath), IfaceDrive, "Media")}

InfoBlockShapes ==
    {Unreadable(InfoObject({IfaceBlock}, RootPath, RootPath),
                IfaceBlock, "PreferredDevice")}
    \cup {InfoObject({IfaceBlock}, d, RootPath) : d \in Refs}
    \cup {InfoObject({IfaceBlock}, RootPath, r) : r \in RefTargets}
    \cup {InfoObject({IfaceBlock, IfaceLoop}, d, RootPath) : d \in Refs}
    \cup {InfoObject({IfaceBlock, IfacePartition}, d, RootPath) : d \in Refs}

\* the first object is something a reference may point at
InitInfo ==
    /\ managed_objects \in {m \in [Paths -> InfoTargetShapes \cup InfoBlockShapes] :
                              m[1] \in InfoTargetShapes}
    /\ call = NoCall

\* object_info(object); the read that tells whether the object is a partition
\* may fail.  No size of these inventories lies half way between two
\* renderings.
ObjectInfo ==
    \E path \in Paths, order \in Orders(managed_objects) :
      \E fail \in {NoFail, {<<path, "object.partition">>}} :
        /\ call.op = "none"
        /\ call' = [op |-> "object_info", arg |-> path, fail |-> fail,
                    result |-> object_info(managed_objects, order, path, fail, TRUE)]
        /\ UNCHANGED managed_objects

NextInfo == ObjectInfo

SpecInfo == InitInfo /\ [][NextInfo]_vars

\* C11: object_info picks the presentation by priority: an object exposing
\* Drive gets the drive presentation; else one exposing MDRaid the RAID
\* presentation; else one exposing Block the drive presentation if
\* drive_for_block succeeds, else the RAID presentation if mdraid_for_block
\* succeeds, else the loop presentation if it exposes Loop, else the block
\* presentation; an object exposing none of the three gets every field unset.
\* (Stated for calls in which every read succeeds; the presentation a result
\* carries is told by the category prefix of its sort key.)
C11_PresentationPriority ==
    (/\ call.op = "object_info"
     /\ call.fail = NoFail
     /\ \A p \in DOMAIN managed_objects :
          /\ Exposes(managed_objects, p, IfaceDrive)
                => "Media" \in DOMAIN managed_objects[p][IfaceDrive]
          /\ Exposes(managed_objects, p, IfaceBlock)
                => "PreferredDevice" \in DOMAIN managed_objects[p][IfaceBlock]) =>
        LET exposes(iface) == Exposes(managed_objects, call.arg, iface)
            blk == Proxy(call.arg, IfaceBlock)
            key == call.result.info.sort_key
            starts(prefix) ==
                /\ key.some
                /\ Len(prefix) <= Len(key.val)
                /\ SubSeq(key.val, 1, Len(prefix)) = prefix
            picked ==
                IF call.result.aborted THEN "aborted"
                ELSE IF call.result.info = ObjectInfo_new THEN "unset"
                ELSE IF starts(drive_sort_key(<<>>)) THEN "drive"
                ELSE IF starts(<<"0", "1", "_", "m", "d", "r", "a", "i", "d", "_">>)
                THEN "mdraid"
                ELSE IF starts(<<"0", "2", "_", "b", "l", "o", "c", "k", "_">>)
                THEN "block"
                ELSE IF starts(<<"0", "3", "_", "l", "o", "o", "p", "_">>)
                THEN "loop"
                ELSE "other"
        IN  IF exposes(IfaceDrive) THEN picked = "drive"
            ELSE IF exposes(IfaceMDRaid) THEN picked = "mdraid"
            ELSE IF exposes(IfaceBlock)
            THEN IF drive_for_block(managed_objects, blk, NoFail).ok
                 THEN picked = "drive"
                 ELSE IF mdraid_for_block(managed_objects, blk, NoFail).ok
                 THEN picked = "mdraid"
                 ELSE IF exposes(IfaceLoop) THEN picked = "loop"
                 ELSE picked = "block"
            ELSE picked = "unset"

\* C12: object_info always returns a result and never aborts the process,
\* whichever properties are unreadable (the drive's Media, the array's UUID,
\* the partition's Number, a block's PreferredDevice): the affected field
\* falls back to an empty, default or unset value.
C12_ObjectInfoNeverAborts ==
    call.op = "object_info" => ~call.result.aborted

\* C14: when object_info presents a Block object that is a partition, it
\* never returns the non-partition description and the partition-number-0
\* sort key, also when the read that tells whether the object is a partition
\* fails: the result differs from every presentation the same object gets
\* without partition context.
C14_PartitionCheckFailureReported ==
    (/\ call.op = "object_info"
     /\ ~Exposes(managed_objects, call.arg, IfaceDrive)
     /\ Exposes(managed_objects, call.arg, IfaceBlock)
     /\ Exposes(managed_objects, call.arg, IfacePartition)
     /\ ~call.result.aborted) =>
        LET blk == Proxy(call.arg, IfaceBlock)
            block_drive == drive_for_block(managed_objects, blk, NoFail)
        IN  /\ call.result # info_for_block(managed_objects, call.arg, blk, None, TRUE)
            /\ call.result # info_for_loop(managed_objects, call.arg,
                                           Proxy(call.arg, IfaceLoop), blk, None, TRUE)
            /\ block_drive.ok =>
                 \A order \in Orders(managed_objects) :
                   call.result # info_for_drive(managed_objects, order,
                                                block_drive.val, None, NoFail, TRUE)

\* C13: when fetching the object snapshot fails with a transport-level error
\* during a resolver query, the failure is propagated to the caller: the
\* outcome differs from the outcome "no related object exists" (None, the
\* empty list).  Stated for block_for_drive.
C13_SnapshotFailurePropagated ==
    (call.op = "block_for_drive" /\ <<RootPath, "enum">> \in call.fail) =>
        call.result # None

(***************************************************************************)
(* partitions(table) step by step: the object paths are enumerated once,   *)
(* then every object is checked with round trips of its own (the accessor  *)
(* fetches the inventory again, the Table read goes to the live object),   *)
(* and the service may change the inventory between two checks             *)
(***************************************************************************)
\* number of times the inventory changes while one query is in progress
MaxChanges == 1

\* inventories of partition tables and of partitions of some table
ScanInventories ==
    [Paths -> {[i \in {IfaceBlock, IfacePartitionTable} |-> DefaultBag(i)]}
              \cup {[i \in {IfaceBlock, IfacePartition} |->
                        IF i = IfacePartition THEN [Table |-> t] ELSE DefaultBag(i)] :
                    t \in RefTargets}]

InitScan ==
    /\ managed_objects \in ScanInventories
    /\ call = NoCall

\* the call starts: get_managed_objects() yields the object paths to visit;
\* seen collects the inventories that exist while the call is in progress
PartitionsBegin ==
    \E table \in Paths, order \in Orders(managed_objects) :
        /\ call.op = "none"
        /\ partition_table(managed_objects, table, FALSE).ok
        /\ call' = [op |-> "partitions", arg |-> table,
                    pending |-> Enumerate(order, NoFail), found |-> <<>>,
                    seen |-> {managed_objects}, changes |-> 0]
        /\ UNCHANGED managed_objects

\* one turn of the loop: object.partition() and partition.table() of the
\* next object, answered from the inventory as it is now
PartitionsStep ==
    /\ call.op = "partitions"
    /\ call.pending # <<>>
    /\ LET path == Head(call.pending)
           part == partition(managed_objects, path, FALSE)
           matches == /\ part.ok
                      /\ Property(managed_objects, part.val, "Table", FALSE)
                           = Ok(call.arg)
       IN  call' = [call EXCEPT
                       !.pending = Tail(@),
                       !.found = IF matches THEN Append(@, path) ELSE @]
    /\ UNCHANGED managed_objects

\* the service changes the inventory between two round trips of the call
InventoryChanged ==
    \E changed \in ScanInventories :
        /\ call.op = "partitions"
        /\ call.pending # <<>>
        /\ call.changes < MaxChanges
        /\ changed # managed_objects
        /\ managed_objects' = changed
        /\ call' = [call EXCEPT !.seen = @ \cup {changed}, !.changes = @ + 1]

NextScan == PartitionsBegin \/ PartitionsStep \/ InventoryChanged

SpecScan == InitScan /\ [][NextScan]_vars

\* C15: a resolver query is snapshot-consistent although the inventory
\* changes while it is in progress: what partitions(table) returns is what
\* the query gives on one inventory that existed at some instant during the
\* call.
C15_SnapshotConsistent ==
    (call.op = "partitions" /\ call.pending = <<>>) =>
        \E objects \in call.seen :
            Range(call.found) = PartitionsOf(objects, call.arg)

(***************************************************************************)
(* The pure presentation functions on their own: the sort keys of two      *)
(* presentations, and size_for_display of one size                         *)
(***************************************************************************)
\* the largest partition number of a sort key
MaxPartitionNumber == 11
\* sizes are m * unit and m * unit + (unit - 1) for the mantissas
\* 0..MaxMantissa and the mantissas around the unit steps
MaxMantissa == 12

InitFormat ==
    /\ managed_objects = <<>>
    /\ call = NoCall

\* the sort keys of two presentations: the category, the key segment (the
\* drive's SortKey property, the array's UUID, the last segment of the
\* object path) and the partition number (0 for a whole device)
SortKeys ==
    /\ call.op = "none"
    /\ LET key(category, segment, number) ==
               CASE category = "drive" -> drive_sort_key(segment)
                 [] category = "mdraid" -> mdraid_sort_key(segment, number)
                 [] category = "block" -> block_sort_key(segment, number)
                 [] category = "loop" -> loop_sort_key(segment, number)
           inputs == [category : {"drive", "mdraid", "block", "loop"},
                      segment : {<<>>, <<"0">>, <<"z">>},
                      number : 0..MaxPartitionNumber]
       IN  \E first \in inputs, second \in inputs :
               call' = [op |-> "sort_keys", first |-> first, second |-> second,
                        first_key |-> key(first.category, first.segment, first.number),
                        second_key |-> key(second.category, second.segment,
                                           second.number)]
    /\ UNCHANGED managed_objects

\* size_for_display(size, use_pow2, long_str)
SizeForDisplay ==
    /\ call.op = "none"
    /\ \E unit \in {1, 1000, 1000000, 1000000000, 1024, 1048576, 1073741824},
          m \in 0..MaxMantissa
                \cup {99, 100, 499, 500, 999, 1000, 1001, 1023, 1024, 1025, 10241, 10242},
          below, use_pow2, long_str, tie_up \in BOOLEAN :
           LET size == BigMulAdd(BigFromNat(unit), m, IF below THEN unit - 1 ELSE 0)
           IN  call' = [op |-> "size_for_display", size |-> size,
                        use_pow2 |-> use_pow2, long_str |-> long_str,
                        tie_up |-> tie_up,
                        result |-> size_for_display(size, use_pow2, long_str, tie_up)]
    /\ UNCHANGED managed_objects

\* Client::job_description_from_operation
job_description_from_operation(operation) ==
    CASE operation = "ata-smart-selftest" -> pgettext("job", "SMART self-test")
      [] operation = "drive-eject" -> pgettext("job", "Ejecting Medium")
      [] operation = "encrypted-unlock" -> pgettext("job", "Unlocking Device")
      [] operation = "encrypted-lock" -> pgettext("job", "Locking Device")
      [] operation = "encrypted-modify" -> pgettext("job", "Modifying Encrypted Device")
      [] operation = "encrypted-resize" -> pgettext("job", "Resizing Encrypted Device")
      [] operation = "swapspace-start" -> pgettext("job", "Starting Swap Device")
      [] operation = "swapspace-stop" -> pgettext("job", "Stopping Swap Device")
      [] operation = "swapspace-modify" -> pgettext("job", "Modifying Swap Device")
      [] operation = "filesystem-check" -> pgettext("job", "Checking Filesystem")
      [] operation = "filesystem-mount" -> pgettext("job", "Mounting Filesystem")
      [] operation = "filesystem-unmount" -> pgettext("job", "Unmounting Filesystem")
      [] operation = "filesystem-modify" -> pgettext("job", "Modifying Filesystem")
      [] operation = "filesystem-repair" -> pgettext("job", "Repairing Filesystem")
      [] operation = "filesystem-resize" -> pgettext("job", "Resizing Filesystem")
      [] operation = "format-erase" -> pgettext("job", "Erasing Device")
      [] operation = "format-mkfs" -> pgettext("job", "Creating Filesystem")
      [] operation = "loop-setup" -> pgettext("job", "Setting Up Loop Device")
      [] operation = "partition-modify" -> pgettext("job", "Modifying Partition")
      [] operation = "partition-delete" -> pgettext("job", "Deleting Partition")
      [] operation = "partition-create" -> pgettext("job", "Creating Partition")
      [] operation = "cleanup" -> pgettext("job", "Cleaning Up")
      [] operation = "ata-secure-erase" -> pgettext("job", "ATA Secure Erase")
      [] operation = "ata-enhanced-secure-erase" ->
             pgettext("job", "ATA Enhanced Secure Erase")
      [] operation = "md-raid-stop" -> pgettext("job", "Stopping RAID Array")
      [] operation = "md-raid-start" -> pgettext("job", "Starting RAID Array")
      [] operation = "md-raid-fault-device" -> pgettext("job", "Marking Device as Faulty")
      [] operation = "md-raid-remove-device" ->
             pgettext("job", "Removing Device from Array")
      [] operation = "md-raid-add-device" -> pgettext("job", "Adding Device to Array")
      [] operation = "md-raid-set-bitmap" -> pgettext("job", "Setting Write-Intent Bitmap")
      [] operation = "md-raid-create" -> pgettext("job", "Creating RAID Array")
      [] OTHER -> Concat(pgettext_f("unknown-job", <<"Unknown (", "{}", ")">>,
                                    <<operation>>))

\* the operation types the documentation of JobProxy::operation lists as known
KnownOperationTypes ==
    {"ata-smart-selftest", "drive-eject", "encrypted-unlock", "encrypted-lock",
     "encrypted-modify", "encrypted-resize", "swapspace-start", "swapspace-stop",
     "swapspace-modify", "filesystem-mount", "filesystem-unmount",
     "filesystem-modify", "filesystem-resize", "format-erase", "format-mkfs",
     "loop-setup", "partition-modify", "partition-delete", "partition-create",
     "cleanup", "ata-secure-erase", "ata-enhanced-secure-erase", "md-raid-stop",
     "md-raid-start", "md-raid-fault-device", "md-raid-remove-device",
     "md-raid-create", "nvme-selftest", "nvme-sanitize", "nvme-format-ns"}

\* job_description_from_operation(operation) for the documented operation
\* types, the four more the function knows, and codes neither lists
JobDescription ==
    /\ call.op = "none"
    /\ \E operation \in KnownOperationTypes
                         \cup {"filesystem-check", "filesystem-repair",
                               "md-raid-add-device", "md-raid-set-bitmap"}
                         \cup {"", "lvm-vg-create", "%s", "{}", "Cleanup"} :
         call' = [op |-> "job_description_from_operation", arg |-> operation,
                  result |-> job_description_from_operation(operation)]
    /\ UNCHANGED managed_objects

NextFormat == SortKeys \/ SizeForDisplay \/ JobDescription

SpecFormat == InitFormat /\ [][NextFormat]_vars

\* C16: for two presentations of different categories, lexicographic
\* comparison of the sort keys orders them drive < RAID array < plain block
\* < loop device, whatever the other key segments (sort-key property, UUID,
\* path segment, partition number) contain.
C16_CategoryOrder ==
    call.op = "sort_keys" =>
        LET code(c) ==
                CHOOSE i \in 1..37 :
                    <<"0", "1", "2", "3", "4", "5", "6", "7", "8", "9", "_",
                      "a", "b", "c", "d", "e", "f", "g", "h", "i", "j", "k", "l", "m",
                      "n", "o", "p", "q", "r", "s", "t", "u", "v", "w", "x", "y",
                      "z">>[i] = c
            less(a, b) ==
                \E i \in 1..(Len(a) + 1) :
                    /\ i <= Len(b)
                    /\ \A j \in 1..(i - 1) : a[j] = b[j]
                    /\ i <= Len(a) => code(a[i]) < code(b[i])
            rank(category) ==
                CASE category = "drive" -> 0
                  [] category = "mdraid" -> 1
                  [] category = "block" -> 2
                  [] category = "loop" -> 3
        IN  rank(call.first.category) < rank(call.second.category)
                => /\ less(call.first_key, call.second_key)
                   /\ ~less(call.second_key, call.first_key)

\* a drive whose key segment and partition number are the largest is
\* compared with a whole loop device whose key segment is empty
C16_Witness ==
    /\ call.op = "sort_keys"
    /\ call.first = [category |-> "drive", segment |-> <<"z">>,
                     number |-> MaxPartitionNumber]
    /\ call.second = [category |-> "loop", segment |-> <<>>, number |-> 0]
    /\ call.first_key = <<"0", "0", "_", "d", "r", "i", "v", "e", "_", "z">>
    /\ call.second_key = <<"0", "3", "_", "l", "o", "o", "p", "_", "_", "0">>

\* C17: within one category the partition number is the final tiebreak: the
\* presentations of a whole device and of its partitions (of a drive, of a
\* RAID array) have pairwise distinct sort keys, and the one with the smaller
\* partition number sorts first under lexicographic order, for partition
\* numbers of 10 and above too.
C17_PartitionNumberTiebreak ==
    (/\ call.op = "sort_keys"
     /\ call.first.category = call.second.category
     /\ call.first.category \in {"drive", "mdraid"}
     /\ call.first.segment = call.second.segment
     /\ call.first.number < call.second.number) =>
        LET code(c) ==
                CHOOSE i \in 1..37 :
                    <<"0", "1", "2", "3", "4", "5", "6", "7", "8", "9", "_",
                      "a", "b", "c", "d", "e", "f", "g", "h", "i", "j", "k", "l", "m",
                      "n", "o", "p", "q", "r", "s", "t", "u", "v", "w", "x", "y",
                      "z">>[i] = c
            less(a, b) ==
                \E i \in 1..(Len(a) + 1) :
                    /\ i <= Len(b)
                    /\ \A j \in 1..(i - 1) : a[j] = b[j]
                    /\ i <= Len(a) => code(a[i]) < code(b[i])
        IN  /\ call.first_key # call.second_key
            /\ less(call.first_key, call.second_key)

\* C18: decimal formatting (use_pow2 = false) selects the largest unit that
\* makes the scaled value at least 1 and below 1000: a size below 1000 bytes
\* is rendered unscaled in bytes, 1000 renders as 1.0 of the kilo unit, and
\* 999,999 is never rendered as 1000 of the kilo unit.
C18_DecimalUnitSelection ==
    (call.op = "size_for_display" /\ ~call.use_pow2 /\ ~call.long_str) =>
        LET scale == pow10_scale(call.size).display_size
            equals(n) == ~BigLess(call.size, BigFromNat(n))
                         /\ ~BigLess(BigFromNat(n), call.size)
        IN  /\ BigLess(call.size, BigFromNat(1000)) => scale.den = <<>>
            /\ ~BigLess(call.size, BigFromNat(1000)) =>
                 /\ ~BigLess(scale.num, BigProduct(scale.den))
                 /\ BigLess(scale.num, BigProduct(<<1000>> \o scale.den))
            /\ equals(1000) => call.result = "1.0 KB"
            /\ equals(999999) => call.result # "1000 KB"

\* C19: binary formatting (use_pow2 = true) steps its units at the powers of
\* 1024: 1024 renders as "1.0 KiB", 1048576 as "1.0 MiB", every size from
\* 1024^4 upward is shown in TiB as size / 1024^4, and for every size from
\* 1024 to below 1024^5 the scaled value is at least 1 and below 1024.
C19_BinaryUnitSteps ==
    (call.op = "size_for_display" /\ call.use_pow2 /\ ~call.long_str) =>
        LET chosen == pow2_scale(call.size)
            scale == chosen.display_size
            equals(n) == ~BigLess(call.size, BigFromNat(n))
                         /\ ~BigLess(BigFromNat(n), call.size)
            tebi == BigProduct(<<1024, 1024, 1024, 1024>>)
        IN  /\ equals(1024) => call.result = "1.0 KiB"
            /\ equals(1048576) => call.result = "1.0 MiB"
            /\ ~BigLess(call.size, tebi) =>
                 /\ chosen.unit = "TiB"
                 /\ ~BigLess(BigProduct(scale.den), tebi)
                 /\ ~BigLess(tebi, BigProduct(scale.den))
            /\ (/\ ~BigLess(call.size, BigFromNat(1024))
                /\ BigLess(call.size, BigProduct(<<1024, 1024, 1024, 1024, 1024>>))) =>
                 /\ ~BigLess(scale.num, BigProduct(scale.den))
                 /\ BigLess(scale.num, BigProduct(<<1024>> \o scale.den))

\* C20: for a fixed, non-rotating drive of known size with no recognised
\* media family and no connection bus, backed by one top-level block,
\* object_info yields the description "{size} Disk" with the size in decimal
\* units, the icon "drive-harddisk-solidstate", the one-liner "{description}
\* \u{2014} {vendor} {model} ({preferred device})" and the sort key
\* "00_drive_" followed by the SortKey property; vendor "ATA", model "SSD1",
\* size 500,000,000,000 and device "/dev/sda" yield the description
\* "500.0 GB Disk" and the one-liner "500.0 GB Disk \u{2014} ATA SSD1
\* (/dev/sda)".
C20_FixedSolidStateDrive ==
    (/\ call.op = "object_info"
     /\ call.fail = NoFail
     /\ Exposes(managed_objects, call.arg, IfaceDrive)
     /\ "Media" \in DOMAIN managed_objects[call.arg][IfaceDrive]
     /\ Cardinality(TopLevelBlocks(managed_objects, call.arg)) = 1) =>
        LET drv == managed_objects[call.arg][IfaceDrive]
            blk == CHOOSE p \in TopLevelBlocks(managed_objects, call.arg) : TRUE
            device == managed_objects[blk][IfaceBlock].PreferredDevice.bytes
            description ==
                Concat(<<size_for_display(drv.Size, FALSE, FALSE, TRUE), " Disk">>)
        IN  /\ ~call.result.aborted
            /\ call.result.info.description = Some(description)
            /\ call.result.info.icon.name = Some("drive-harddisk-solidstate")
            /\ call.result.info.one_liner
                 = Some(Concat(<<description, " \\u{2014} ", drv.Vendor, " ", drv.Model,
                                 " (", device, ")">>))
            /\ call.result.info.sort_key
                 = Some(<<"0", "0", "_", "d", "r", "i", "v", "e", "_">> \o drv.SortKey)
            /\ (drv.Vendor = "ATA" /\ drv.Model = "SSD1" /\ device = "/dev/sda"
                /\ drv.Size = BigProduct(<<500, 1000, 1000, 1000>>)) =>
                 /\ call.result.info.description = Some("500.0 GB Disk")
                 /\ call.result.info.one_liner
                      = Some("500.0 GB Disk \\u{2014} ATA SSD1 (/dev/sda)")

(***************************************************************************)
(* Inventories of one drive: its top-level block devices with their hints  *)
(* and its partitions                                                      *)
(***************************************************************************)
\* the object with some properties of one interface set to other values
WithProperties(object, iface, properties) ==
    [i \in DOMAIN object |->
        IF i = iface THEN properties @@ object[i] ELSE object[i]]

\* object 1 is the drive: a fixed solid-state disk with a firmware
\* revision, a thumb drive with a blank one, a hard disk whose revision is
\* unreadable.  Object 2 is its top-level block device /dev/sda with or
\* without hints, or no block device at all.  Every other object is a
\* second top-level block device of the drive (a multipath device with its
\* own hint), partition p - 1 of the drive, or a job.
PresentInventories ==
    LET disk == InfoObject({IfaceDrive}, RootPath, RootPath)
        drives ==
            {WithProperties(disk, IfaceDrive, [Revision |-> "1.0"]),
             WithProperties(disk, IfaceDrive,
                 [Revision |-> "", MediaRemovable |-> TRUE, Media |-> "thumb",
                  MediaCompatibility |-> <<"thumb">>]),
             Unreadable(WithProperties(disk, IfaceDrive, [RotationRate |-> 7200]),
                        IfaceDrive, "Revision")}
        top_level == InfoObject({IfaceBlock}, 1, RootPath)
        hinted ==
            {WithProperties(top_level, IfaceBlock,
                 [HintName |-> h[1], HintIconName |-> h[2],
                  HintSymbolicIconName |-> h[3]]) :
               h \in {<<"", "", "">>, <<"My Disk", "", "">>, <<"", "my-icon", "">>,
                      <<"", "", "my-icon-symbolic">>,
                      <<"My Disk", "my-icon", "my-icon-symbolic">>}}
            \cup {Unreadable(top_level, IfaceBlock, "HintName")}
        other(kind, p) ==
            CASE kind = "multipath" ->
                   WithProperties(top_level, IfaceBlock,
                       [HintName |-> "Other Disk",
                        PreferredDevice |-> [bytes |-> "/dev/dm-" \o to_string(p),
                                             nul_terminated |-> TRUE]])
              [] kind = "partition" ->
                   WithProperties(
                       WithProperties(InfoObject({IfaceBlock, IfacePartition}, 1, RootPath),
                           IfaceBlock,
                           [PreferredDevice |-> [bytes |-> "/dev/sda" \o to_string(p - 1),
                                                 nul_terminated |-> TRUE]]),
                       IfacePartition, [Number |-> p - 1])
              [] OTHER -> InfoObject({IfaceJob}, RootPath, RootPath)
    IN  {[p \in Paths |->
             IF p = 1 THEN drv ELSE IF p = 2 THEN blk ELSE other(kinds[p], p)] :
           drv \in drives,
           blk \in hinted \cup {InfoObject({IfaceJob}, RootPath, RootPath)},
           kinds \in [Paths \ {1, 2} -> {"multipath", "partition", "job"}]}

InitPresent ==
    /\ managed_objects \in PresentInventories
    /\ call = NoCall

\* the same inventories with one more object, which is not asked about: a
\* further top-level block device of the drive with a hint of its own
InitMultipath ==
    /\ managed_objects \in
          {Append(objects,
                  WithProperties(InfoObject({IfaceBlock}, 1, RootPath), IfaceBlock,
                      [HintName |-> "Other Disk",
                       PreferredDevice |-> [bytes |-> "/dev/dm-0",
                                            nul_terminated |-> TRUE]])) :
             objects \in PresentInventories}
    /\ call = NoCall

\* object_info(object), and object_info(object) once more for the object of
\* the last call on the unchanged inventory; the provider may enumerate the
\* objects in another order.  The read that tells whether the object is a
\* partition may fail.
ObjectInfoRepeated ==
    /\ call.op \in {"none", "object_info"}
    /\ \E path \in DOMAIN managed_objects, order \in Orders(managed_objects) :
         \E fail \in {NoFail, {<<path, "object.partition">>}} :
           /\ call.op = "object_info" => (path = call.arg /\ fail = call.fail)
           /\ path \in Paths
           /\ call' = [op |-> IF call.op = "none" THEN "object_info"
                              ELSE "object_info_again",
                       arg |-> path, fail |-> fail,
                       first |-> IF call.op = "none" THEN None ELSE Some(call.result),
                       result |-> object_info(managed_objects, order, path, fail, TRUE)]
    /\ UNCHANGED managed_objects

NextPresent == ObjectInfoRepeated

SpecPresent == InitPresent /\ [][NextPresent]_vars

SpecMultipath == InitMultipath /\ [][NextPresent]_vars

\* C21: for a drive presented without partition context whose backing
\* top-level block has a non-empty HintName, the description and the media
\* description both equal the hint exactly; a non-empty HintIconName
\* replaces the icon name and the media icon name, a non-empty
\* HintSymbolicIconName both symbolic names; an empty or unreadable hint
\* leaves the value unchanged that the same drive gets without hints.
C21_HintOverride ==
    (/\ call.op \in {"object_info", "object_info_again"}
     /\ Exposes(managed_objects, call.arg, IfaceDrive)
     /\ Cardinality(TopLevelBlocks(managed_objects, call.arg)) = 1) =>
        LET blk == CHOOSE p \in TopLevelBlocks(managed_objects, call.arg) : TRUE
            bag == managed_objects[blk][IfaceBlock]
            hint(name) == IF name \in DOMAIN bag THEN bag[name] ELSE ""
            unhinted ==
                [managed_objects EXCEPT ![blk] =
                    WithProperties(@, IfaceBlock,
                        [HintName |-> "", HintIconName |-> "",
                         HintSymbolicIconName |-> ""])]
            synthesized ==
                object_info(unhinted, CHOOSE o \in Orders(unhinted) : TRUE,
                            call.arg, NoFail, TRUE).info
            info == call.result.info
            pick(given, otherwise) == IF given # "" THEN Some(given) ELSE otherwise
        IN  /\ ~call.result.aborted
            /\ info.description = pick(hint("HintName"), synthesized.description)
            /\ info.media_description
                 = pick(hint("HintName"), synthesized.media_description)
            /\ info.icon.name = pick(hint("HintIconName"), synthesized.icon.name)
            /\ info.media_icon.name
                 = pick(hint("HintIconName"), synthesized.media_icon.name)
            /\ info.icon.name_symbolic
                 = pick(hint("HintSymbolicIconName"), synthesized.icon.name_symbolic)
            /\ info.media_icon.name_symbolic
                 = pick(hint("HintSymbolicIconName"),
                        synthesized.media_icon.name_symbolic)

\* a drive with a removable medium whose only top-level block carries all
\* three hints has been presented with the hints in place of "Thumb Drive"
C21_Witness ==
    /\ call.op = "object_info"
    /\ Exposes(managed_objects, call.arg, IfaceDrive)
    /\ Cardinality(TopLevelBlocks(managed_objects, call.arg)) = 1
    /\ \E p \in TopLevelBlocks(managed_objects, call.arg) :
         /\ Holds(managed_objects, p, IfaceBlock, "HintName", "My Disk")
         /\ Holds(managed_objects, p, IfaceBlock, "HintIconName", "my-icon")
    /\ managed_objects[call.arg][IfaceDrive].MediaRemovable
    /\ \E p \in DOMAIN managed_objects : Exposes(managed_objects, p, IfacePartition)
    /\ ~call.result.aborted
    /\ call.result.info.description = Some("My Disk")
    /\ call.result.info.media_description = Some("My Disk")
    /\ call.result.info.icon.name = Some("my-icon")
    /\ call.result.info.media_icon.name_symbolic = Some("my-icon-symbolic")

\* C22: two consecutive object_info builds for the same drive on an
\* unchanged inventory produce identical output, whichever order the
\* provider enumerates the objects in on each call, also for a drive with
\* several top-level blocks.
C22_BuildsIdentical ==
    (/\ call.op = "object_info_again"
     /\ Exposes(managed_objects, call.arg, IfaceDrive)) =>
        call.first = Some(call.result)

\* C23: for a block that is partition n (n >= 1) of a drive, the
\* description object_info produces is "Partition n of " followed by the
\* description object_info produces for the drive itself on the same
\* inventory, also when a name hint replaced the drive's description.
C23_PartitionWrapping ==
    (/\ call.op \in {"object_info", "object_info_again"}
     /\ call.fail = NoFail
     /\ ~Exposes(managed_objects, call.arg, IfaceDrive)
     /\ Exposes(managed_objects, call.arg, IfaceBlock)
     /\ Exposes(managed_objects, call.arg, IfacePartition)
     /\ managed_objects[call.arg][IfacePartition].Number >= 1
     /\ drive_for_block(managed_objects, Proxy(call.arg, IfaceBlock), NoFail).ok) =>
        LET drv == managed_objects[call.arg][IfaceBlock].Drive
            number == to_string(managed_objects[call.arg][IfacePartition].Number)
        IN  \A order \in Orders(managed_objects) :
              LET unpartitioned == object_info(managed_objects, order, drv, NoFail, TRUE)
              IN  /\ ~call.result.aborted
                  /\ ~unpartitioned.aborted
                  /\ unpartitioned.info.description.some
                  /\ call.result.info.description
                       = Some(Concat(<<"Partition ", number, " of ",
                                       unpartitioned.info.description.val>>))

(***************************************************************************)
(* The device queries and the member query of one array on one inventory   *)
(***************************************************************************)
\* object 1 is an array; every other object is a block device, a partition
\* or not, that is the device of array 1 or of none and a member of array 1
\* or of none
InitRaidPair ==
    /\ managed_objects \in
          {[p \in Paths |-> IF p = 1 THEN [i \in {IfaceMDRaid} |-> DefaultBag(i)]
                            ELSE blocks[p]] :
             blocks \in [Paths \ {1} ->
                 {[i \in ifaces |-> IF i = IfaceBlock THEN b ELSE DefaultBag(i)] :
                    ifaces \in {{IfaceBlock}, {IfaceBlock, IfacePartition}},
                    b \in [Drive : {RootPath}, MDRaid : {RootPath, 1},
                           MDRaidMember : {RootPath, 1}]}]}
    /\ call = NoCall

\* block_for_mdraid(raid), all_blocks_for_mdraid(raid) and
\* members_for_mdraid(raid), each with its own enumeration
RaidQueries ==
    /\ call.op = "none"
    /\ \E raid \in RefTargets :
         \E devices_order \in Orders(managed_objects),
            members_order \in Orders(managed_objects) :
           call' = [op |-> "raid_queries", arg |-> raid,
                    device |-> block_for_mdraid(managed_objects, devices_order,
                                                raid, NoFail),
                    devices |-> all_blocks_for_mdraid(managed_objects, devices_order,
                                                      raid, NoFail),
                    members |-> members_for_mdraid(managed_objects, members_order,
                                                   raid, NoFail)]
    /\ UNCHANGED managed_objects

SpecRaidPair == InitRaidPair /\ [][RaidQueries]_vars

\* no block names the same array as its device and as the array it is a
\* member of
WellFormed(objects) ==
    \A p \in DOMAIN objects :
        Exposes(objects, p, IfaceBlock) =>
            \/ objects[p][IfaceBlock].MDRaid = RootPath
            \/ objects[p][IfaceBlock].MDRaid # objects[p][IfaceBlock].MDRaidMember

\* C24: on a well-formed inventory, for every array, the result of the
\* raid-device queries (block_for_mdraid, all_blocks_for_mdraid) and the
\* result of members_for_mdraid have no block in common.
C24_DevicesAndMembersDisjoint ==
    (call.op = "raid_queries" /\ WellFormed(managed_objects)) =>
        /\ Range(call.devices) \cap Range(call.members) = {}
        /\ call.device.some => call.device.val \notin Range(call.members)

\* both queries have returned blocks of the array on a well-formed inventory
C24_Witness ==
    /\ call.op = "raid_queries"
    /\ WellFormed(managed_objects)
    /\ call.device.some
    /\ call.devices # <<>>
    /\ call.members # <<>>

\* C25: job_description_from_operation maps every operation type that the
\* documentation of JobProxy::operation lists as known (nvme-selftest,
\* nvme-sanitize and nvme-format-ns among them) to a descriptive phrase of
\* its own, never to the "Unknown (...)" form, and every code c that neither
\* the documentation nor the table knows to exactly "Unknown (c)".
C25_JobDescriptions ==
    call.op = "job_description_from_operation" =>
        LET unknown == Concat(<<"Unknown (", call.arg, ")">>)
        IN  IF call.arg \in KnownOperationTypes
            THEN /\ call.result # unknown
                 /\ \A other \in KnownOperationTypes \ {call.arg} :
                      job_description_from_operation(other) # call.result
            ELSE \/ call.result = unknown
                 \/ call.arg \in {"filesystem-check", "filesystem-repair",
                                  "md-raid-add-device", "md-raid-set-bitmap"}

(***************************************************************************)
(* The RAID presentation, built for an array and for the blocks of one     *)
(***************************************************************************)
\* object 1 is an array, named or not, its size readable or not; every
\* other object is the raid device of the array, a member disk of it, a
\* partition of the raid device, or a job
ArrayInventories ==
    LET array == InfoObject({IfaceMDRaid}, RootPath, RootPath)
        arrays == {array,
                   WithProperties(array, IfaceMDRaid, [Name |-> <<"">>]),
                   Unreadable(array, IfaceMDRaid, "Name"),
                   Unreadable(array, IfaceMDRaid, "Size")}
        other(kind, p) ==
            CASE kind = "device" ->
                   WithProperties(InfoObject({IfaceBlock}, RootPath, 1), IfaceBlock,
                       [PreferredDevice |-> [bytes |-> "/dev/md0",
                                             nul_terminated |-> TRUE]])
              [] kind = "member" ->
                   WithProperties(InfoObject({IfaceBlock}, RootPath, RootPath),
                       IfaceBlock,
                       [MDRaidMember |-> 1,
                        PreferredDevice |-> [bytes |-> "/dev/sdb",
                                             nul_terminated |-> TRUE]])
              [] kind = "partition" ->
                   WithProperties(
                       WithProperties(InfoObject({IfaceBlock, IfacePartition},
                                                 RootPath, 1),
                           IfaceBlock,
                           [PreferredDevice |->
                               [bytes |-> "/dev/md0p" \o to_string(p),
                                nul_terminated |-> TRUE]]),
                       IfacePartition, [Number |-> p])
              [] OTHER -> InfoObject({IfaceJob}, RootPath, RootPath)
    IN  {[p \in Paths |-> IF p = 1 THEN a ELSE other(kinds[p], p)] :
           a \in arrays,
           kinds \in [Paths \ {1} -> {"device", "member", "partition", "job"}]}

InitArray ==
    /\ managed_objects \in ArrayInventories
    /\ call = NoCall

\* info_for_mdraid(mdraid, partition) with the arguments object_info passes
\* for an array (no partition) and for a block whose MDRaid reference names
\* an array (the block's Partition interface, if it has one)
InfoForMDRaid ==
    /\ call.op = "none"
    /\ \E path \in Paths, order \in Orders(managed_objects) :
         LET of_array == Exposes(managed_objects, path, IfaceMDRaid)
             reference == IF Exposes(managed_objects, path, IfaceBlock)
                          THEN managed_objects[path][IfaceBlock].MDRaid
                          ELSE RootPath
             raid == IF of_array THEN path ELSE reference
             part == IF ~of_array /\ Exposes(managed_objects, path, IfacePartition)
                     THEN Some(Proxy(path, IfacePartition)) ELSE None
         IN  /\ raid \in DOMAIN managed_objects
             /\ Exposes(managed_objects, raid, IfaceMDRaid)
             /\ call' = [op |-> "info_for_mdraid", arg |-> path, raid |-> raid,
                         part |-> part,
                         result |-> info_for_mdraid(managed_objects, order,
                                        Proxy(raid, IfaceMDRaid), part, NoFail, TRUE)]
    /\ UNCHANGED managed_objects

SpecArray == InitArray /\ [][InfoForMDRaid]_vars

\* C26: for a block that is partition n of an array the description is
\* "Partition n of " followed by the array's unpartitioned description, the
\* size and the level label, or the bare level label when the size cannot
\* be read.
C26_RaidPartitionWrapping ==
    (call.op = "info_for_mdraid" /\ call.part.some /\ ~call.result.aborted) =>
        LET raid == Proxy(call.raid, IfaceMDRaid)
            size == Property(managed_objects, raid, "Size", FALSE)
            level == format_level(Property(managed_objects, raid, "Level", FALSE))
            unpartitioned ==
                IF size.ok
                THEN Concat(<<size_for_display(size.val, FALSE, FALSE, TRUE), " ", level>>)
                ELSE level
            n == managed_objects[call.arg][IfacePartition].Number
        IN  call.result.info.description
                = Some(Concat(<<"Partition ", to_string(n), " of ", unpartitioned>>))

\* C27: the one-liner of an array has four forms, by whether the name is
\* empty and whether the array is running (a block that is no partition
\* names it as its MDRaid): "name -- description (device)", "name --
\* description", "description -- device", "description"; the device path is
\* that of the raid device, and the name is the part of the array name after
\* the host name.
C27_RaidOneLiner ==
    (call.op = "info_for_mdraid" /\ ~call.result.aborted) =>
        LET raid == Proxy(call.raid, IfaceMDRaid)
            name_parts == unwrap_or(Property(managed_objects, raid, "Name", FALSE),
                                    <<"">>)
            name == name_parts[Len(name_parts)]
            description == call.result.info.description.val
            raid_devices ==
                {p \in DOMAIN managed_objects :
                    /\ Exposes(managed_objects, p, IfaceBlock)
                    /\ ~Exposes(managed_objects, p, IfacePartition)
                    /\ managed_objects[p][IfaceBlock].MDRaid = call.raid}
            device(p) == managed_objects[p][IfaceBlock].PreferredDevice.bytes
            dash == " \\u{2014} "
        IN  /\ call.result.info.name = Some(name)
            /\ IF raid_devices = {}
               THEN call.result.info.one_liner
                      = Some(IF name # "" THEN Concat(<<name, dash, description>>)
                             ELSE description)
               ELSE \E p \in raid_devices :
                      call.result.info.one_liner
                        = Some(IF name # ""
                               THEN Concat(<<name, dash, description,
                                             " (", device(p), ")">>)
                               ELSE Concat(<<description, dash, device(p)>>))

\* the one-liner of a drive presentation in the form with a bracketed
\* firmware revision and in the form without
DriveOneLiner(description, name, revision, device) ==
    IF revision.some
    THEN Concat(<<description, " \\u{2014} ", name, " [", revision.val, "] (",
                  device, ")">>)
    ELSE Concat(<<description, " \\u{2014} ", name, " (", device, ")">>)

\* the special device paths of the block devices of an inventory
DevicePaths(objects) ==
    {objects[p][IfaceBlock].PreferredDevice.bytes :
       p \in {q \in DOMAIN objects : Exposes(objects, q, IfaceBlock)}}

\* C28: the one-liner of a drive is "description -- name [revision]
\* (device)" when the firmware revision is known and "description -- name
\* (device)", with no bracketed part, when it is unknown, which covers an
\* unreadable Revision as well as a blank one; "[]" is never produced.
C28_RevisionSegment ==
    (/\ call.op \in {"object_info", "object_info_again"}
     /\ Exposes(managed_objects, call.arg, IfaceDrive)
     /\ ~call.result.aborted
     /\ call.result.info.one_liner.some) =>
        LET read == Property(managed_objects, Proxy(call.arg, IfaceDrive),
                             "Revision", FALSE)
            revision == IF read.ok /\ read.val # "" THEN Some(read.val) ELSE None
            info == call.result.info
        IN  \E device \in DevicePaths(managed_objects) :
              info.one_liner
                = Some(DriveOneLiner(info.description.val, info.name.val,
                                     revision, device))

\* C30: in the drive presentation of a partition the device path of the
\* one-liner belongs to the same block whether or not the firmware revision
\* of the drive can be read, and there is a one-liner if and only if the
\* drive has a top-level block.
C30_DeviceIndependentOfRevision ==
    (/\ call.op \in {"object_info", "object_info_again"}
     /\ call.fail = NoFail
     /\ ~Exposes(managed_objects, call.arg, IfaceDrive)
     /\ Exposes(managed_objects, call.arg, IfaceBlock)
     /\ Exposes(managed_objects, call.arg, IfacePartition)
     /\ drive_for_block(managed_objects, Proxy(call.arg, IfaceBlock), NoFail).ok
     /\ Cardinality(TopLevelBlocks(managed_objects,
                        managed_objects[call.arg][IfaceBlock].Drive)) <= 1
     /\ ~call.result.aborted) =>
        LET drv == managed_objects[call.arg][IfaceBlock].Drive
            readable == "Revision" \in DOMAIN managed_objects[drv][IfaceDrive]
            toggled ==
                [managed_objects EXCEPT ![drv] =
                    IF readable THEN Unreadable(@, IfaceDrive, "Revision")
                    ELSE WithProperties(@, IfaceDrive, [Revision |-> "1.0"])]
            other == object_info(toggled, CHOOSE o \in Orders(toggled) : TRUE,
                                 call.arg, NoFail, TRUE)
            revision(objects) ==
                IF "Revision" \in DOMAIN objects[drv][IfaceDrive]
                THEN Some(objects[drv][IfaceDrive].Revision) ELSE None
            shows(result, objects, device) ==
                result.info.one_liner
                    = Some(DriveOneLiner(result.info.description.val,
                                         result.info.name.val,
                                         revision(objects), device))
        IN  /\ ~other.aborted
            /\ call.result.info.one_liner.some
                 <=> TopLevelBlocks(managed_objects, drv) # {}
            /\ other.info.one_liner.some <=> TopLevelBlocks(managed_objects, drv) # {}
            /\ call.result.info.one_liner.some =>
                 \E device \in DevicePaths(managed_objects) :
                    /\ shows(call.result, managed_objects, device)
                    /\ shows(other, toggled, device)

(***************************************************************************)
(* The scanning queries step by step: the object paths are enumerated      *)
(* once, then every object is checked with round trips of its own, and the *)
(* service may remove an object, an interface or a property in between     *)
(***************************************************************************)
ScanQueries ==
    {"partitions", "drive_siblings", "block_for_label", "block_for_uuid",
     "members_for_mdraid", "all_blocks_for_mdraid", "jobs_for_object",
     "block_for_drive", "cleartext_block"}

\* the interface a query asks every object for
ScannedInterface(query) ==
    CASE query = "partitions" -> IfacePartition
      [] query = "drive_siblings" -> IfaceDrive
      [] query = "jobs_for_object" -> IfaceJob
      [] OTHER -> IfaceBlock

\* the property a query reads from every object that has the interface
ScannedProperty(query) ==
    CASE query = "partitions" -> "Table"
      [] query = "drive_siblings" -> "SiblingId"
      [] query = "block_for_label" -> "IdLabel"
      [] query = "block_for_uuid" -> "IdUUID"
      [] query = "members_for_mdraid" -> "MDRaid"
      [] query = "all_blocks_for_mdraid" -> "MDRaidMember"
      [] query = "jobs_for_object" -> "Objects"
      [] query = "block_for_drive" -> "Drive"
      [] OTHER -> "CryptoBackingDevice"

\* object.partition(), object.drive(), object.job() or object.block()
ScanProxy(objects, query, path) ==
    CASE query = "partitions" -> partition(objects, path, FALSE)
      [] query = "drive_siblings" -> drive(objects, path, FALSE)
      [] query = "jobs_for_object" -> job(objects, path, FALSE)
      [] OTHER -> block(objects, path, FALSE)

\* a check that takes an object whose property cannot be read for a match
ScanMatches_unreadable(objects, query, path, expected) ==
    LET read == Property(objects, Proxy(path, ScannedInterface(query)),
                         ScannedProperty(query), FALSE)
        is_partition == partition(objects, path, FALSE).ok
    IN  /\ query \in {"all_blocks_for_mdraid", "block_for_drive"} => ~is_partition
        /\ IF query = "jobs_for_object"
           THEN ~read.ok \/ expected \in Range(read.val)
           ELSE ~read.ok \/ read = Ok(expected)

\* the check of one object: the property read through the proxy is Ok and
\* equal to what the query looks for; two queries leave partitions out
ScanMatches(objects, query, path, expected) ==
    LET read == Property(objects, Proxy(path, ScannedInterface(query)),
                         ScannedProperty(query), FALSE)
        is_partition == partition(objects, path, FALSE).ok
    IN  /\ query \in {"all_blocks_for_mdraid", "block_for_drive"} => ~is_partition
        /\ IF query = "jobs_for_object"
           THEN read.ok /\ expected \in Range(read.val)
           ELSE read = Ok(expected)

\* object 1 is what the queries are about: a drive, an array, a block device
\* with a partition table, or an encrypted block device.  Every other
\* object is a block device related to it (a block of the drive, a member
\* of the array, the cleartext device), a partition related to it (of the
\* drive, of the array device, of the table), a sibling drive, or a job on
\* object 1.
ScanTargets == {"drive", "raid", "table", "encrypted"}

ScanBlockBag(drv, raid, member, backing) ==
    [Drive |-> drv, MDRaid |-> raid, MDRaidMember |-> member,
     CryptoBackingDevice |-> backing, IdLabel |-> "l", IdUUID |-> "u"]

ScanObject(target, kind) ==
    LET to(k) == IF target = k THEN 1 ELSE RootPath
    IN  CASE kind = "block" ->
               [i \in {IfaceBlock} |->
                   ScanBlockBag(to("drive"), RootPath, to("raid"), to("encrypted"))]
          [] kind = "partition" ->
               [i \in {IfaceBlock, IfacePartition} |->
                   IF i = IfaceBlock
                   THEN ScanBlockBag(to("drive"), to("raid"), RootPath, RootPath)
                   ELSE [Table |-> to("table")]]
          [] kind = "drive" -> [i \in {IfaceDrive} |-> [SiblingId |-> "s"]]
          [] kind = "job" -> [i \in {IfaceJob} |-> [Objects |-> <<1>>]]
          [] kind = "raid" -> [i \in {IfaceMDRaid} |-> DefaultBag(i)]
          [] kind = "table" ->
               [i \in {IfaceBlock, IfacePartitionTable} |->
                   IF i = IfaceBlock
                   THEN ScanBlockBag(RootPath, RootPath, RootPath, RootPath)
                   ELSE DefaultBag(i)]
          [] OTHER ->
               [i \in {IfaceBlock} |->
                   ScanBlockBag(RootPath, RootPath, RootPath, RootPath)]

InitResolve ==
    /\ managed_objects \in
          {[p \in Paths |-> IF p = 1 THEN ScanObject(target, target)
                            ELSE ScanObject(target, kinds[p])] :
             target \in ScanTargets,
             kinds \in [Paths \ {1} -> {"block", "partition", "drive", "job"}]}
    /\ call = NoCall

\* a query about object 1 (or the label "l", the UUID "u") starts:
\* drive_siblings reads the SiblingId of its drive and returns at once when
\* that fails or is empty; every other query enumerates the object paths
ScanBegin ==
    /\ call.op = "none"
    /\ \E query \in ScanQueries, order \in Orders(managed_objects) :
         LET sibling_id == Property(managed_objects, Proxy(1, IfaceDrive),
                                    "SiblingId", FALSE)
             at_once == /\ query = "drive_siblings"
                        /\ (~sibling_id.ok \/ sibling_id.val = "")
         IN  call' = [op |-> "scan", query |-> query,
                      expected |->
                          CASE query = "drive_siblings" ->
                                 IF sibling_id.ok THEN sibling_id.val ELSE ""
                            [] query = "block_for_label" -> "l"
                            [] query = "block_for_uuid" -> "u"
                            [] OTHER -> 1,
                      pending |-> IF at_once THEN <<>> ELSE Enumerate(order, NoFail),
                      stage |-> "accessor", found |-> <<>>, hit |-> {},
                      changes |-> 0]
    /\ UNCHANGED managed_objects

\* the interface accessor of the next object: without the interface the
\* loop continues with the object after it
ScanAccessor ==
    /\ call.op = "scan"
    /\ call.stage = "accessor"
    /\ call.pending # <<>>
    /\ call' = IF ScanProxy(managed_objects, call.query, Head(call.pending)).ok
               THEN [call EXCEPT !.stage = "check"]
               ELSE [call EXCEPT !.pending = Tail(@)]
    /\ UNCHANGED managed_objects

\* the check of the object through its proxy; cleartext_block returns the
\* first block that matches
ScanCheck ==
    /\ call.op = "scan"
    /\ call.stage = "check"
    /\ LET path == Head(call.pending)
           matches == ScanMatches(managed_objects, call.query, path, call.expected)
       IN  call' = [call EXCEPT
                       !.stage = "accessor",
                       !.found = IF matches THEN Append(@, path) ELSE @,
                       !.pending = IF matches /\ call.query = "cleartext_block"
                                   THEN <<>> ELSE Tail(@)]
    /\ UNCHANGED managed_objects

\* block_for_drive asks every top-level block it has collected for its Block
\* interface once more and returns the first that still has it
ScanSecond ==
    /\ call.op = "scan"
    /\ call.query = "block_for_drive"
    /\ call.pending = <<>>
    /\ call.found # <<>>
    /\ call' = IF block(managed_objects, Head(call.found), FALSE).ok
               THEN [op |-> "returned", query |-> call.query,
                     found |-> <<Head(call.found)>>, hit |-> call.hit,
                     result |-> Some(Head(call.found))]
               ELSE [call EXCEPT !.found = Tail(@)]
    /\ UNCHANGED managed_objects

\* the loop is over and the query returns: the proxies collected, the one
\* proxy or None, or for jobs_for_object the path asked about once for
\* every job that lists it
ScanReturn ==
    /\ call.op = "scan"
    /\ call.pending = <<>>
    /\ call.query = "block_for_drive" => call.found = <<>>
    /\ call' = [op |-> "returned", query |-> call.query, found |-> call.found,
                hit |-> call.hit,
                result |->
                    CASE call.query \in {"block_for_drive", "cleartext_block"} ->
                           IF call.found = <<>> THEN None ELSE Some(call.found[1])
                      [] call.query = "jobs_for_object" ->
                           [i \in 1..Len(call.found) |-> call.expected]
                      [] OTHER -> call.found]
    /\ UNCHANGED managed_objects

\* the objects the query has yet to ask for the interface; block_for_drive
\* asks the blocks it has collected a second time
AwaitingAccessor(c) ==
    Range(c.pending) \cup (IF c.query = "block_for_drive" THEN Range(c.found) ELSE {})

\* an object disappears while the query is in progress
ObjectDisappears ==
    /\ call.op = "scan"
    /\ call.changes < MaxChanges
    /\ \E p \in DOMAIN managed_objects :
         /\ managed_objects' = [q \in DOMAIN managed_objects \ {p} |-> managed_objects[q]]
         /\ call' = [call EXCEPT
                        !.changes = @ + 1,
                        !.hit = IF p \in AwaitingAccessor(call) THEN @ \cup {p} ELSE @]

\* an object loses one of several interfaces while the query is in progress
InterfaceLost ==
    /\ call.op = "scan"
    /\ call.changes < MaxChanges
    /\ \E p \in DOMAIN managed_objects :
         \E iface \in DOMAIN managed_objects[p] :
           /\ Cardinality(DOMAIN managed_objects[p]) > 1
           /\ managed_objects' =
                 [managed_objects EXCEPT
                     ![p] = [i \in DOMAIN @ \ {iface} |-> @[i]]]
           /\ call' = [call EXCEPT
                          !.changes = @ + 1,
                          !.hit = IF /\ iface = ScannedInterface(call.query)
                                     /\ p \in AwaitingAccessor(call)
                                  THEN @ \cup {p} ELSE @]

\* the property the query reads becomes unreadable on one object
PropertyUnreadable ==
    /\ call.op = "scan"
    /\ call.changes < MaxChanges
    /\ \E p \in DOMAIN managed_objects :
         LET iface == ScannedInterface(call.query)
             name == ScannedProperty(call.query)
         IN  /\ Exposes(managed_objects, p, iface)
             /\ name \in DOMAIN managed_objects[p][iface]
             /\ managed_objects' =
                   [managed_objects EXCEPT ![p] = Unreadable(@, iface, name)]
             /\ call' = [call EXCEPT
                            !.changes = @ + 1,
                            !.hit = IF p \in Range(call.pending) THEN @ \cup {p} ELSE @]

ScanProgress == ScanAccessor \/ ScanCheck \/ ScanSecond \/ ScanReturn

NextResolve ==
    \/ ScanBegin
    \/ ScanAccessor
    \/ ScanCheck
    \/ ScanSecond
    \/ ScanReturn
    \/ ObjectDisappears
    \/ InterfaceLost
    \/ PropertyUnreadable

\* the caller awaits the query, so a query in progress takes its next step
SpecResolve == InitResolve /\ [][NextResolve]_vars /\ WF_vars(ScanProgress)

\* C29: every scanning query that has started returns, whatever the
\* service removes while it is in progress, and an object that disappeared,
\* lost the scanned interface or had the scanned property become unreadable
\* before its check is not among the objects the query found.
C29_ScansReturn ==
    /\ []((\/ call.op = "returned"
            \/ (call.op = "scan" /\ call.query # "block_for_drive"))
              => Range(call.found) \cap call.hit = {})
    /\ (call.op = "scan") ~> (call.op = "returned")

\* a query has returned what it found although an object it had yet to
\* check was removed or degraded in the meantime
C29_Witness ==
    /\ call.op = "returned"
    /\ call.hit # {}
    /\ call.found # <<>>

====
